---- MODULE Spec2Model ----
(***************************************************************************)
(* A model of crowdriff/lru: the 2Q replacement engine (TwoQ) and the      *)
(* cache coordinator (LRU) that binds it to the bolt byte store and to the *)
(* remote store, with single-flight fetches and background write-backs.    *)
(***************************************************************************)
EXTENDS Integers, Sequences, FiniteSets, TLC

(***************************************************************************)
(* Bounds of the model.                                                    *)
(***************************************************************************)
\* number of TwoQ calls in a behaviour of SpecTQ
MaxOps == 5

\* keys handed to the TwoQ engine
Keys == {"a", "b", "c"}

\* value sizes handed to the TwoQ engine
Sizes == {0, 500, 1000}

\* number of Get and Empty calls made on the cache in a behaviour of Spec
MaxCalls == 3

\* client goroutines calling the cache
Clients == {"g1", "g2"}

\* keys requested from the cache
LKeys == {"a", "b"}

\* values the remote store may return, each identified by its length
Values == {400, 700}

(***************************************************************************)
(* NewTwoQ: the capacities of DefaultTwoQ(0).  Ratios are kept in          *)
(* thousandths; int64(ratio * float64(cap)) truncates.                     *)
(***************************************************************************)
twoQHot == 0
twoQWarm == 1
twoQCold == 2

Statuses == {twoQHot, twoQWarm, twoQCold}

\* "capacity should be at least 1000 bytes"
MinCap == 1000

\* DefaultTwoQ: NewTwoQ(cap, 0.001, 0.25, 0.5)
evictRatio == 1
warmHotRatio == 250
coldRatio == 500

cap == MinCap

pruneCap == ((1000 - evictRatio) * cap) \div 1000

coldCap == (coldRatio * cap) \div 1000

warmCap == (warmHotRatio * cap) \div 1000

hotCap == cap - warmCap

\* twoQList.cap, by list status
listCap == [st \in Statuses |->
              IF st = twoQHot THEN hotCap
              ELSE IF st = twoQWarm THEN warmCap ELSE coldCap]

\* newList: twoQList.pruneCap, by list status
listPruneCap == [st \in Statuses |-> ((1000 - evictRatio) * listCap[st]) \div 1000]

(***************************************************************************)
(* The TwoQ state.  q.list[st] is the linked list of the sub-queue with    *)
(* status st, front first; q.size[st] is its size counter.  An element is  *)
(* a listItem: key, size, status, and "mapped", which is TRUE when         *)
(* tq.items[key] points to this very item (an item that the map has        *)
(* dropped or replaced stays linked with mapped = FALSE).                  *)
(***************************************************************************)
NoLoc == [st |-> -1, idx |-> 0]

EmptyTwoQ == [list |-> [st \in Statuses |-> << >>],
              size |-> [st \in Statuses |-> 0]]

newItem(key, status, size) ==
  [key |-> key, size |-> size, status |-> status, mapped |-> TRUE]

\* the places where tq.items[k] is linked
Locs(q, k) ==
  UNION {{[st |-> st, idx |-> n] :
            n \in {m \in 1..Len(q.list[st]) :
                      q.list[st][m].key = k /\ q.list[st][m].mapped}} :
         st \in Statuses}

\* k is in tq.items
HasKey(q, k) == Locs(q, k) # {}

\* the place of the item tq.items[k]
Loc(q, k) == IF HasKey(q, k) THEN CHOOSE l \in Locs(q, k) : TRUE ELSE NoLoc

\* the item tq.items[k]
Item(q, k) == q.list[Loc(q, k).st][Loc(q, k).idx]

\* the list in which tq.items[k] is linked (-1: k is not in items)
Residency(q, k) == Loc(q, k).st

RemoveAt(s, i) == SubSeq(s, 1, i - 1) \o SubSeq(s, i + 1, Len(s))

\* TwoQ.Size
Size(q) == q.size[twoQHot] + q.size[twoQWarm]

\* TwoQ.Len
LenTQ(q) == Len(q.list[twoQHot]) + Len(q.list[twoQWarm])

\* twoQList.pushToFront
pushToFront(q, st, i) ==
  [q EXCEPT !.list[st] = << [i EXCEPT !.status = st] >> \o @,
            !.size[st] = @ + i.size]

\* twoQList.removeElem: list.Remove is a no-op when the element is not
\* linked in this list; the size counter is decremented regardless
removeElem(q, st, l) ==
  LET i == q.list[l.st][l.idx]
  IN [q EXCEPT !.list[st] = IF l.st = st THEN RemoveAt(@, l.idx) ELSE @,
               !.size[st] = @ - i.size]

\* list.MoveToFront: a no-op when the element is not linked in this list
MoveToFront(q, st, l) ==
  IF l.st = st
  THEN [q EXCEPT !.list[st] = << q.list[st][l.idx] >> \o RemoveAt(@, l.idx)]
  ELSE q

\* delete(tq.items, key)
deleteItem(q, k) ==
  [q EXCEPT !.list = [st \in Statuses |->
      [n \in 1..Len(q.list[st]) |->
          IF q.list[st][n].key = k
          THEN [q.list[st][n] EXCEPT !.mapped = FALSE]
          ELSE q.list[st][n]]]]

\* i.size = size on the item tq.items[k]
setSize(q, l, size) == [q EXCEPT !.list[l.st][l.idx].size = size]

\* an evict that goes on while either size is over its prune capacity
RECURSIVE evictLoop_EitherBound(_, _, _, _)
evictLoop_EitherBound(q, st, evicted, bevicted) ==
  IF Size(q) > pruneCap \/ q.size[st] > listPruneCap[st]
  THEN IF Len(q.list[st]) = 0
       THEN [q |-> q, evicted |-> evicted, bytes |-> bevicted]
       ELSE LET l == [st |-> st, idx |-> Len(q.list[st])]
                i == q.list[st][l.idx]
            IN evictLoop_EitherBound(pushToFront(removeElem(q, st, l), twoQCold, i),
                                     st, Append(evicted, i.key), bevicted + i.size)
  ELSE [q |-> q, evicted |-> evicted, bytes |-> bevicted]

\* twoQList.evict
RECURSIVE evictLoop(_, _, _, _)
evictLoop(q, st, evicted, bevicted) ==
  IF Size(q) > pruneCap /\ q.size[st] > listPruneCap[st]
  THEN IF Len(q.list[st]) = 0
       THEN [q |-> q, evicted |-> evicted, bytes |-> bevicted]
       ELSE LET l == [st |-> st, idx |-> Len(q.list[st])]
                i == q.list[st][l.idx]
            IN evictLoop(pushToFront(removeElem(q, st, l), twoQCold, i), st,
                         Append(evicted, i.key), bevicted + i.size)
  ELSE [q |-> q, evicted |-> evicted, bytes |-> bevicted]

evict(q, st) == evictLoop(q, st, << >>, 0)

\* a pruneCold that trims nothing
pruneCold_NoTrim(q) == q

\* TwoQ.pruneCold
RECURSIVE pruneCold(_)
pruneCold(q) ==
  IF q.size[twoQCold] > listCap[twoQCold]
  THEN IF Len(q.list[twoQCold]) = 0
       THEN q
       ELSE LET l == [st |-> twoQCold, idx |-> Len(q.list[twoQCold])]
                i == q.list[twoQCold][l.idx]
            IN pruneCold(deleteItem(removeElem(q, twoQCold, l), i.key))
  ELSE q

\* a prune that returns the keys evicted from Hot before those from Warm
prune_HotKeysFirst(q) ==
  IF Size(q) <= cap
  THEN [q |-> q, evicted |-> << >>, bytes |-> 0]
  ELSE LET w == evict(q, twoQWarm)
           h == evict(w.q, twoQHot)
       IN [q |-> pruneCold(h.q),
           evicted |-> h.evicted \o w.evicted,
           bytes |-> w.bytes + h.bytes]

\* TwoQ.prune
prune(q) ==
  IF Size(q) <= cap
  THEN [q |-> q, evicted |-> << >>, bytes |-> 0]
  ELSE LET w == evict(q, twoQWarm)
           h == evict(w.q, twoQHot)
       IN [q |-> pruneCold(h.q),
           evicted |-> w.evicted \o h.evicted,
           bytes |-> w.bytes + h.bytes]

\* a Get that treats a Cold item as a Warm one
Get_ColdHit(q, key) ==
  IF HasKey(q, key)
  THEN LET l == Loc(q, key)
           i == Item(q, key)
       IN CASE i.status = twoQHot ->
                 [q |-> MoveToFront(q, twoQHot, l), ret |-> i.size]
            [] OTHER ->
                 [q |-> pushToFront(removeElem(q, i.status, l), twoQHot, i),
                  ret |-> i.size]
  ELSE [q |-> q, ret |-> -1]

\* a Get that moves a Warm item to the front of Warm instead of Hot
Get_WarmStays(q, key) ==
  IF HasKey(q, key)
  THEN LET l == Loc(q, key)
           i == Item(q, key)
       IN CASE i.status = twoQHot ->
                 [q |-> MoveToFront(q, twoQHot, l), ret |-> i.size]
            [] i.status = twoQWarm ->
                 [q |-> MoveToFront(q, twoQWarm, l), ret |-> i.size]
            [] OTHER -> [q |-> q, ret |-> -1]
  ELSE [q |-> q, ret |-> -1]

\* TwoQ.Get
Get(q, key) ==
  IF HasKey(q, key)
  THEN LET l == Loc(q, key)
           i == Item(q, key)
       IN CASE i.status = twoQHot ->
                 [q |-> MoveToFront(q, twoQHot, l), ret |-> i.size]
            [] i.status = twoQWarm ->
                 [q |-> pushToFront(removeElem(q, twoQWarm, l), twoQHot, i),
                  ret |-> i.size]
            [] OTHER -> [q |-> q, ret |-> -1]
  ELSE [q |-> q, ret |-> -1]

\* PutAndEvict up to its return statement: the item is sized and linked,
\* prune has not run
Inserted(q, key, size) ==
  IF HasKey(q, key)
  THEN LET l == Loc(q, key)
           q1 == setSize(q, l, size)
           i == Item(q1, key)
       IN IF i.status = twoQHot
          THEN MoveToFront(q1, twoQHot, l)
          ELSE pushToFront(removeElem(q1, i.status, l), twoQHot, i)
  ELSE pushToFront(q, twoQWarm, newItem(key, twoQWarm, size))

\* a PutAndEvict that keeps the size of an item it finds
PutAndEvict_KeepsSize(q, key, size) ==
  IF HasKey(q, key)
  THEN LET l == Loc(q, key)
           i == Item(q, key)
       IN CASE i.status = twoQHot ->
                 [q |-> MoveToFront(q, twoQHot, l), evicted |-> << >>, bytes |-> 0]
            [] i.status = twoQWarm ->
                 [q |-> pushToFront(removeElem(q, twoQWarm, l), twoQHot, i),
                  evicted |-> << >>, bytes |-> 0]
            [] OTHER ->
                 prune(pushToFront(removeElem(q, twoQCold, l), twoQHot, i))
  ELSE prune(pushToFront(q, twoQWarm, newItem(key, twoQWarm, size)))

\* a PutAndEvict that returns without pruning after reviving a Cold item
PutAndEvict_ColdNoPrune(q, key, size) ==
  IF HasKey(q, key)
  THEN LET l == Loc(q, key)
           q1 == setSize(q, l, size)
           i == Item(q1, key)
       IN CASE i.status = twoQHot ->
                 [q |-> MoveToFront(q1, twoQHot, l), evicted |-> << >>, bytes |-> 0]
            [] i.status = twoQWarm ->
                 [q |-> pushToFront(removeElem(q1, twoQWarm, l), twoQHot, i),
                  evicted |-> << >>, bytes |-> 0]
            [] OTHER ->
                 [q |-> pushToFront(removeElem(q1, twoQCold, l), twoQHot, i),
                  evicted |-> << >>, bytes |-> 0]
  ELSE prune(pushToFront(q, twoQWarm, newItem(key, twoQWarm, size)))

\* a PutAndEvict that adds the size of a Hot item to the Hot counter again
PutAndEvict_HotRecounts(q, key, size) ==
  IF HasKey(q, key)
  THEN LET l == Loc(q, key)
           q1 == setSize(q, l, size)
           i == Item(q1, key)
       IN CASE i.status = twoQHot ->
                 [q |-> [MoveToFront(q1, twoQHot, l) EXCEPT !.size[twoQHot] = @ + size],
                  evicted |-> << >>, bytes |-> 0]
            [] i.status = twoQWarm ->
                 [q |-> pushToFront(removeElem(q1, twoQWarm, l), twoQHot, i),
                  evicted |-> << >>, bytes |-> 0]
            [] OTHER ->
                 prune(pushToFront(removeElem(q1, twoQCold, l), twoQHot, i))
  ELSE prune(pushToFront(q, twoQWarm, newItem(key, twoQWarm, size)))

\* a PutAndEvict that links a new key in Hot
PutAndEvict_NewToHot(q, key, size) ==
  IF HasKey(q, key)
  THEN LET l == Loc(q, key)
           q1 == setSize(q, l, size)
           i == Item(q1, key)
       IN CASE i.status = twoQHot ->
                 [q |-> MoveToFront(q1, twoQHot, l), evicted |-> << >>, bytes |-> 0]
            [] i.status = twoQWarm ->
                 [q |-> pushToFront(removeElem(q1, twoQWarm, l), twoQHot, i),
                  evicted |-> << >>, bytes |-> 0]
            [] OTHER ->
                 prune(pushToFront(removeElem(q1, twoQCold, l), twoQHot, i))
  ELSE prune(pushToFront(q, twoQHot, newItem(key, twoQHot, size)))

\* TwoQ.PutAndEvict
PutAndEvict(q, key, size) ==
  IF HasKey(q, key)
  THEN LET l == Loc(q, key)
           q1 == setSize(q, l, size)
           i == Item(q1, key)
       IN CASE i.status = twoQHot ->
                 [q |-> MoveToFront(q1, twoQHot, l), evicted |-> << >>, bytes |-> 0]
            [] i.status = twoQWarm ->
                 [q |-> pushToFront(removeElem(q1, twoQWarm, l), twoQHot, i),
                  evicted |-> << >>, bytes |-> 0]
            [] OTHER ->
                 prune(pushToFront(removeElem(q1, twoQCold, l), twoQHot, i))
  ELSE prune(pushToFront(q, twoQWarm, newItem(key, twoQWarm, size)))

\* TwoQ.PutOnStartup
PutOnStartup(q, key, size) ==
  LET i == newItem(key, twoQHot, size)
  IN IF Size(q) + size <= cap
     THEN [q |-> pushToFront(deleteItem(q, key), twoQWarm, i), ret |-> TRUE]
     ELSE IF q.size[twoQCold] + size <= listCap[twoQCold]
          THEN [q |-> pushToFront(deleteItem(q, key), twoQCold, i), ret |-> FALSE]
          ELSE [q |-> q, ret |-> FALSE]

\* TwoQ.Empty
Empty(q) == EmptyTwoQ

(***************************************************************************)
(* State.                                                                  *)
(***************************************************************************)
VARIABLES
  tq,      \* the TwoQ index (LRU.lru)
  call,    \* the last TwoQ call: operation, arguments and results
  nops,    \* number of TwoQ calls made
  bolt,    \* the bolt bucket: key -> value, Nil when the key is missing
  reqs,    \* LRU.reqs: key -> request, 0 when there is none
  req,     \* the req objects allocated so far
  stats,   \* LRU.hits, misses, bget, puts, bput, evicted, bevicted
  pc,      \* where each client goroutine is
  loc,     \* each client's locals: key, size, r, the result returned
  tally,   \* how the lookups made so far ended
  ncalls,  \* number of calls made on the cache
  mu,      \* LRU.mu: the goroutine that holds it
  muReqs   \* LRU.muReqs: the goroutine that holds it

tqVars == << tq, call, nops >>

lockVars == << mu, muReqs >>

lruVars == << bolt, reqs, req, stats, pc, loc, tally, ncalls, mu, muReqs >>

vars == << tq, call, nops, bolt, reqs, req, stats, pc, loc, tally, ncalls,
          mu, muReqs >>

\* was: the list the key's item was linked in before the call (-1: not in items)
\* rep: the call repeats the call before it (same operation and arguments)
\* order, loaded: for the startup load, the order in which the entries of the
\* bucket were visited and the keys for which PutOnStartup returned true
NoCall == [op |-> "none", key |-> "", size |-> 0, was |-> -1, ret |-> 0,
           evicted |-> << >>, bytes |-> 0, rep |-> FALSE,
           order |-> << >>, loaded |-> {}]

(***************************************************************************)
(* The cache coordinator: values, errors, requests.                        *)
(***************************************************************************)
Nil == 0

\* []byte{}: a value that is not nil and has no bytes
EmptyValue == -1

\* len(val)
len(v) == IF v = EmptyValue THEN 0 ELSE v

NoErr == "nil"

ErrNoKey == "no key provided"

ErrNoValue == "no value returned from the store"

errTest == "test error"

errPanic == "panic: error message"

\* what Store.Get may do: return (val, err), or panic
StoreOutcomes ==
  [val : Values \cup {EmptyValue}, err : {NoErr}, panic : {FALSE}]
    \cup {[val |-> Nil, err |-> errTest, panic |-> FALSE],
          [val |-> Nil, err |-> NoErr, panic |-> FALSE],
          [val |-> Nil, err |-> NoErr, panic |-> TRUE]}

\* a getResFromStore whose recover leaves the error unset
getResFromStore_NoPanicErr(o) ==
  IF o.panic THEN [val |-> Nil, err |-> NoErr]
  ELSE IF o.err # NoErr THEN [val |-> Nil, err |-> o.err]
  ELSE IF o.val = Nil THEN [val |-> Nil, err |-> ErrNoValue]
  ELSE [val |-> o.val, err |-> NoErr]

\* LRU.getResFromStore, given what Store.Get did
getResFromStore(o) ==
  IF o.panic THEN [val |-> Nil, err |-> errPanic]
  ELSE IF o.err # NoErr THEN [val |-> Nil, err |-> o.err]
  ELSE IF o.val = Nil THEN [val |-> Nil, err |-> ErrNoValue]
  ELSE [val |-> o.val, err |-> NoErr]

NoRes == [val |-> Nil, err |-> NoErr]

\* a req: value, err, the WaitGroup counter wg; wb is the position of the
\* goroutine that getFromStore starts for it, evicted the keys that
\* goroutine has to delete; out is what Store.Get did and res what
\* getResFromStore returned; fn is the number of calls of PostStoreFn made
\* for it and post what PostStoreFn did
NoOut == [val |-> Nil, err |-> NoErr, panic |-> FALSE]

newReq(k) == [key |-> k, value |-> Nil, err |-> NoErr, wg |-> 1,
              wb |-> "none", evicted |-> << >>, out |-> NoOut, res |-> NoRes,
              fn |-> 0, post |-> NoOut]

\* the req objects a behaviour may allocate, one per call at most
ReqIds == 1..MaxCalls

\* a Stats value; at is the time of the call that returned it
NoSnap == [at |-> 0, sTime |-> 0, uptime |-> 0, hits |-> 0, misses |-> 0,
           bget |-> 0, puts |-> 0, bput |-> 0, evicted |-> 0, bevicted |-> 0,
           size |-> 0, capacity |-> 0, numItems |-> 0]

\* a client's locals.  Kept for the properties: afterEmpty, the call follows
\* an Empty of the same client; wbDone, the number of finished write-backs
\* when Empty started (-1: one was running); quiet, no write-back ran while
\* Empty did; snap, the Stats value returned
NoLocals == [key |-> "", size |-> -1, r |-> 0, role |-> "none", ret |-> NoRes,
             afterEmpty |-> FALSE, wbDone |-> -1, quiet |-> FALSE,
             snap |-> NoSnap]

\* sTime is counted in calls made on the cache
ZeroStats == [sTime |-> 0, hits |-> 0, misses |-> 0, bget |-> 0, puts |-> 0,
              bput |-> 0, evicted |-> 0, bevicted |-> 0]

\* the holder of a mutex: a client goroutine, the write-back goroutine of a
\* request, or none
NoOwner == [client |-> "", wb |-> 0]

ClientOwner(t) == [client |-> t, wb |-> 0]

WbOwner(id) == [client |-> "", wb |-> id]

ZeroTally == [gets |-> 0, hits |-> 0, hitBytes |-> 0, misses |-> 0,
              downgrades |-> 0]

InitLRU ==
  /\ bolt = [k \in LKeys |-> Nil]
  /\ reqs = [k \in LKeys |-> 0]
  /\ req = << >>
  /\ stats = ZeroStats
  /\ pc = [t \in Clients |-> "idle"]
  /\ loc = [t \in Clients |-> NoLocals]
  /\ tally = ZeroTally
  /\ ncalls = 0
  /\ mu = NoOwner
  /\ muReqs = NoOwner

InitTQ ==
  /\ tq = EmptyTwoQ
  /\ call = NoCall
  /\ nops = 0
  /\ InitLRU

TQGet(k) ==
  /\ nops < MaxOps
  /\ LET r == Get(tq, k)
     IN /\ tq' = r.q
        /\ call' = [NoCall EXCEPT !.op = "Get", !.key = k, !.ret = r.ret,
                                  !.was = Residency(tq, k)]
  /\ nops' = nops + 1
  /\ UNCHANGED lruVars

TQPutAndEvict(k, s) ==
  /\ nops < MaxOps
  /\ LET r == PutAndEvict(tq, k, s)
     IN /\ tq' = r.q
        /\ call' = [NoCall EXCEPT !.op = "PutAndEvict", !.key = k, !.size = s,
                                  !.was = Residency(tq, k),
                                  !.evicted = r.evicted, !.bytes = r.bytes,
                                  !.rep = (call.op = "PutAndEvict" /\ call.key = k
                                             /\ call.size = s)]
  /\ nops' = nops + 1
  /\ UNCHANGED lruVars

TQPutOnStartup(k, s) ==
  /\ nops < MaxOps
  /\ LET r == PutOnStartup(tq, k, s)
     IN /\ tq' = r.q
        /\ call' = [NoCall EXCEPT !.op = "PutOnStartup", !.key = k, !.size = s,
                                  !.was = Residency(tq, k),
                                  !.ret = IF r.ret THEN 1 ELSE 0]
  /\ nops' = nops + 1
  /\ UNCHANGED lruVars

TQEmpty ==
  /\ nops < MaxOps
  /\ tq' = Empty(tq)
  /\ call' = [NoCall EXCEPT !.op = "Empty"]
  /\ nops' = nops + 1
  /\ UNCHANGED lruVars

NextTQ ==
  \/ \E k \in Keys : TQGet(k)
  \/ \E k \in Keys, s \in Sizes : TQPutAndEvict(k, s)
  \/ \E k \in Keys, s \in Sizes : TQPutOnStartup(k, s)
  \/ TQEmpty

SpecTQ == InitTQ /\ [][NextTQ]_vars

\* the TwoQ engine used through Get and PutAndEvict alone, as the cache
\* coordinator uses it once it is open
NextGP ==
  \/ \E k \in Keys : TQGet(k)
  \/ \E k \in Keys, s \in Sizes : TQPutAndEvict(k, s)

SpecGP == InitTQ /\ [][NextGP]_vars

(***************************************************************************)
(* Open over a bolt bucket that holds entries: the startup load.  The loop *)
(* is the one of fillCacheFromBolt with the TwoQ engine behind it: every   *)
(* entry is offered to PutOnStartup and deleted when that returns false.   *)
(***************************************************************************)
\* the buckets Open may find: every key is missing or has a value
Buckets == [Keys -> {Nil, EmptyValue} \cup Values]

\* the orders in which the keys of set S can be visited
Orders(S) ==
  {o \in [1..Cardinality(S) -> S] : \A i, j \in 1..Cardinality(S) : o[i] = o[j] => i = j}

\* a startup load that keeps the entries PutOnStartup refused
RECURSIVE fillCacheFromBolt_KeepsOverflow(_, _, _, _)
fillCacheFromBolt_KeepsOverflow(q, b, order, loaded) ==
  IF order = << >>
  THEN [q |-> q, bolt |-> b, loaded |-> loaded]
  ELSE LET k == Head(order)
           r == PutOnStartup(q, k, len(b[k]))
       IN IF r.ret
          THEN fillCacheFromBolt_KeepsOverflow(r.q, b, Tail(order), loaded \cup {k})
          ELSE fillCacheFromBolt_KeepsOverflow(r.q, b, Tail(order), loaded)

\* LRU.fillCacheFromBolt: the entries still to visit are order, b is the
\* bucket and loaded the keys PutOnStartup has accepted
RECURSIVE fillCacheFromBolt(_, _, _, _)
fillCacheFromBolt(q, b, order, loaded) ==
  IF order = << >>
  THEN [q |-> q, bolt |-> b, loaded |-> loaded]
  ELSE LET k == Head(order)
           r == PutOnStartup(q, k, len(b[k]))
       IN IF r.ret
          THEN fillCacheFromBolt(r.q, b, Tail(order), loaded \cup {k})
          ELSE fillCacheFromBolt(r.q, [b EXCEPT ![k] = Nil], Tail(order), loaded)

InitOpen ==
  /\ tq = EmptyTwoQ
  /\ call = NoCall
  /\ nops = 0
  /\ bolt \in Buckets
  /\ reqs = [k \in LKeys |-> 0]
  /\ req = << >>
  /\ stats = ZeroStats
  /\ pc = [t \in Clients |-> "idle"]
  /\ loc = [t \in Clients |-> NoLocals]
  /\ tally = ZeroTally
  /\ ncalls = 0
  /\ mu = NoOwner
  /\ muReqs = NoOwner

\* LRU.Open: openBoltDB and the startup load, under l.mu
Open(order) ==
  /\ nops = 0
  /\ order \in Orders({k \in Keys : bolt[k] # Nil})
  /\ LET r == fillCacheFromBolt(tq, bolt, order, {})
     IN /\ tq' = r.q
        /\ bolt' = r.bolt
        /\ call' = [NoCall EXCEPT !.op = "Open", !.order = order,
                                  !.loaded = r.loaded]
  /\ nops' = nops + 1
  /\ UNCHANGED << reqs, req, stats, pc, loc, tally, ncalls, lockVars >>

NextOpen == \E order \in UNION {Orders(S) : S \in SUBSET Keys} : Open(order)

SpecOpen == InitOpen /\ [][NextOpen]_vars

(***************************************************************************)
(* Properties of the TwoQ engine, checked under SpecTQ.                    *)
(***************************************************************************)
RECURSIVE SumSizes(_)
SumSizes(s) == IF s = << >> THEN 0 ELSE Head(s).size + SumSizes(Tail(s))

\* number of elements linked in any list that carry key k
Linked(q, k) ==
  Cardinality(UNION {{[st |-> st, idx |-> n] :
                        n \in {m \in 1..Len(q.list[st]) : q.list[st][m].key = k}} :
                     st \in Statuses})

\* C3: after every TwoQ call, Hot size + Warm size (TwoQ.Size) is at most
\* the total capacity (TwoQ.Cap).
C3_SizeWithinCap == Size(tq) <= cap

\* C4: after every TwoQ call, each sub-queue's size counter equals the sum
\* of item.size over the items linked in that sub-queue.
C4_CountersMatchItems ==
  \A st \in Statuses : tq.size[st] = SumSizes(tq.list[st])

\* C5: each key of the items map is linked in exactly one list, that list
\* matches the item's status field, and every linked element is in the map.
C5_IndexMatchesLists ==
  /\ \A k \in Keys : HasKey(tq, k) => Linked(tq, k) = 1
  /\ \A st \in Statuses : \A n \in 1..Len(tq.list[st]) :
        tq.list[st][n].mapped /\ tq.list[st][n].status = st

\* C6: after every TwoQ call, the Cold queue's size is at most the Cold
\* capacity.
C6_ColdWithinCap == tq.size[twoQCold] <= listCap[twoQCold]

\* a prune has run, evicted a key into Cold and trimmed it out of Cold again
C6_Witness ==
  /\ call.op = "PutAndEvict"
  /\ \E n \in 1..Len(call.evicted) : ~HasKey(tq, call.evicted[n])
  /\ tq.list[twoQCold] # << >>

\* C9: TwoQ.Get(k) returns -1 and changes nothing when k is absent from the
\* index or linked in the Cold queue.
C9_GetMissChangesNothing ==
  [][(call'.op = "Get" /\ nops' = nops + 1
        /\ Residency(tq, call'.key) \in {-1, twoQCold})
      => (call'.ret = -1 /\ tq' = tq)]_vars

\* a Get on a key linked in Cold has returned
C9_Witness ==
  /\ call.op = "Get"
  /\ call.was = twoQCold
  /\ Residency(tq, call.key) = twoQCold

\* C10: TwoQ.Get(k) on a Warm or Hot key leaves k at the front of Hot and
\* returns its size; no other key changes residency and no key is evicted.
C10_GetHitPromotes ==
  [][(call'.op = "Get" /\ nops' = nops + 1
        /\ Residency(tq, call'.key) \in {twoQWarm, twoQHot})
      => LET k == call'.key
         IN /\ call'.ret = Item(tq, k).size
            /\ Loc(tq', k) = [st |-> twoQHot, idx |-> 1]
            /\ Linked(tq', k) = Linked(tq, k)
            /\ \A j \in Keys \ {k} : Residency(tq', j) = Residency(tq, j)
            /\ Len(tq'.list[twoQCold]) = Len(tq.list[twoQCold])]_vars

\* a Get on a Warm key has returned while other keys were Hot and Warm
C10_Witness ==
  /\ call.op = "Get"
  /\ call.was = twoQWarm
  /\ call.ret > 0
  /\ Len(tq.list[twoQHot]) >= 2
  /\ Len(tq.list[twoQWarm]) >= 1

\* a step that is a call PutAndEvict(k, s) of the TwoQ engine
IsPut == call'.op = "PutAndEvict" /\ nops' = nops + 1

\* C11: PutAndEvict(k, s) on a Hot or Warm key sets the item's size to s,
\* leaves it at the front of Hot and returns no evicted keys and 0 bytes,
\* whatever s is.
C11_PutOnHotOrWarm ==
  [][(IsPut /\ Residency(tq, call'.key) \in {twoQHot, twoQWarm})
      => LET k == call'.key
         IN /\ Loc(tq', k) = [st |-> twoQHot, idx |-> 1]
            /\ Item(tq', k).size = call'.size
            /\ call'.evicted = << >>
            /\ call'.bytes = 0]_vars

\* a PutAndEvict on a Warm key has returned nothing although the items now
\* linked in Hot and Warm are larger than the capacity
C11_Witness ==
  /\ call.op = "PutAndEvict"
  /\ call.was = twoQWarm
  /\ call.evicted = << >>
  /\ Residency(tq, call.key) = twoQHot
  /\ SumSizes(tq.list[twoQHot]) + SumSizes(tq.list[twoQWarm]) > cap

\* C12: PutAndEvict(k, s) on a Cold key unlinks it from Cold, links it at
\* the front of Hot with size s, never in Warm, and then runs prune: the
\* state and the results of the call are those of prune on that state.
C12_PutOnCold ==
  [][(IsPut /\ Residency(tq, call'.key) = twoQCold)
      => \A k \in {call'.key} :
         \A m \in {Inserted(tq, k, call'.size)} :
         \A p \in {prune(m)} :
            /\ Loc(m, k) = [st |-> twoQHot, idx |-> 1]
            /\ Item(m, k).size = call'.size
            /\ m.list[twoQWarm] = tq.list[twoQWarm]
            /\ m.list[twoQCold] = RemoveAt(tq.list[twoQCold], Loc(tq, k).idx)
            /\ tq' = p.q
            /\ call'.evicted = p.evicted
            /\ call'.bytes = p.bytes]_vars

\* a PutAndEvict on a Cold key has returned and its prune evicted a key
C12_Witness ==
  /\ call.op = "PutAndEvict"
  /\ call.was = twoQCold
  /\ call.evicted # << >>

\* the keys of the last n elements of list s, the last one first
RECURSIVE TailKeys(_, _)
TailKeys(s, n) ==
  IF n = 0 THEN << >>
  ELSE << s[Len(s)].key >> \o TailKeys(SubSeq(s, 1, Len(s) - 1), n - 1)

\* the keys of the elements of list s, front first
KeysOf(s) == [n \in 1..Len(s) |-> s[n].key]

\* the sizes of the last n elements of list s, added up
TailBytes(s, n) == SumSizes(SubSeq(s, Len(s) - n + 1, Len(s)))

\* C13: PutAndEvict returns no keys and 0 bytes when Hot size + Warm size is
\* at most the capacity once the item is inserted; otherwise it returns the
\* keys evicted from Warm, least recently used first, followed by the keys
\* evicted from Hot, least recently used first, and nothing for the keys
\* trimmed out of Cold.
C13_EvictedKeys ==
  [][IsPut
      => \A m \in {Inserted(tq, call'.key, call'.size)} :
         \A warm \in {m.list[twoQWarm]}, hot \in {m.list[twoQHot]} :
         \A nw \in {Len(warm) - Len(tq'.list[twoQWarm])},
            nh \in {Len(hot) - Len(tq'.list[twoQHot])} :
            /\ Size(m) <= cap =>
                  (call'.evicted = << >> /\ call'.bytes = 0 /\ tq' = m)
            /\ nw >= 0
            /\ nh >= 0
            /\ KeysOf(tq'.list[twoQWarm]) = KeysOf(SubSeq(warm, 1, Len(warm) - nw))
            /\ KeysOf(tq'.list[twoQHot]) = KeysOf(SubSeq(hot, 1, Len(hot) - nh))
            /\ call'.evicted = TailKeys(warm, nw) \o TailKeys(hot, nh)
            /\ call'.bytes = TailBytes(warm, nw) + TailBytes(hot, nh)]_vars

\* a PutAndEvict has evicted the new key from Warm and then another key, and
\* that other key has been trimmed out of Cold
C13_Witness ==
  /\ call.op = "PutAndEvict"
  /\ call.was = -1
  /\ Len(call.evicted) = 2
  /\ call.evicted[1] = call.key
  /\ call.evicted[2] # call.key
  /\ ~HasKey(tq, call.evicted[2])

\* every key has the same residency and every counter the same value in q, r
SameResidencyAndCounters(q, r) ==
  /\ \A k \in Keys : Residency(q, k) = Residency(r, k)
  /\ q.size = r.size

\* a step that is a PutAndEvict(k, s) right after a PutAndEvict(k, s)
IsRepeatedPut ==
  /\ IsPut
  /\ call.op = "PutAndEvict"
  /\ call'.key = call.key
  /\ call'.size = call.size

\* C14, as claimed: a second PutAndEvict(k, s) in a row changes no key's
\* residency and no size counter.
C14_PutTwiceAsOnce ==
  [][IsRepeatedPut => SameResidencyAndCounters(tq, tq')]_vars

\* C14, amended: a second PutAndEvict(k, s) in a row changes no key's
\* residency and no size counter when the first call left k in Hot.
C14_PutTwiceAsOnceWhenHot ==
  [][(IsRepeatedPut /\ Residency(tq, call.key) = twoQHot)
      => SameResidencyAndCounters(tq, tq')]_vars

\* a PutAndEvict(k, s) has been repeated on a key that the first call left
\* in Hot, with a positive size
C14_Witness ==
  /\ call.op = "PutAndEvict"
  /\ call.rep
  /\ call.was = twoQHot
  /\ call.size > 0

\* a step that is a call PutOnStartup(k, s) of the TwoQ engine
IsStartup == call'.op = "PutOnStartup" /\ nops' = nops + 1

\* list s with item i pushed to its front
WithFront(i, s) == << i >> \o s

\* C25: PutOnStartup(k, s) puts k at the front of Warm and returns true iff
\* Hot size + Warm size + s is at most the capacity; otherwise it returns
\* false, and k is put in Cold iff Cold size + s is at most the Cold
\* capacity, else k is not in the index at all; in every case the items that
\* were in the index stay where they were, none moved, evicted or removed.
C25_PutOnStartup ==
  [][IsStartup =>
       \A k \in {call'.key}, s \in {call'.size} :
       \A fitsWarm \in {Size(tq) + s <= cap},
          fitsCold \in {tq.size[twoQCold] + s <= listCap[twoQCold]} :
          /\ (call'.ret = 1) <=> fitsWarm
          /\ fitsWarm =>
               /\ Loc(tq', k) = [st |-> twoQWarm, idx |-> 1]
               /\ Item(tq', k).size = s
               /\ tq'.list[twoQWarm] = WithFront(Item(tq', k), tq.list[twoQWarm])
               /\ tq'.list[twoQCold] = tq.list[twoQCold]
          /\ (~fitsWarm /\ fitsCold) =>
               /\ Loc(tq', k) = [st |-> twoQCold, idx |-> 1]
               /\ Item(tq', k).size = s
               /\ tq'.list[twoQCold] = WithFront(Item(tq', k), tq.list[twoQCold])
               /\ tq'.list[twoQWarm] = tq.list[twoQWarm]
          /\ (~fitsWarm /\ ~fitsCold) => (~HasKey(tq', k) /\ tq' = tq)
          /\ tq'.list[twoQHot] = tq.list[twoQHot]
          /\ \A j \in Keys \ {k} : Residency(tq', j) = Residency(tq, j)]_vars

\* the residency of k in q and in r
Edge(q, r, k) == << Residency(q, k), Residency(r, k) >>

Stay == {<< st, st >> : st \in Statuses \cup {-1}}

\* between q and r every key other than k stays, and k stays or moves along
\* an edge of E
MovesOnly(q, r, k, E) ==
  \A j \in Keys : Edge(q, r, j) \in (IF j = k THEN E \cup Stay ELSE Stay)

\* between q and r every key stays or moves along the edge e
MovesAlong(q, r, e) == \A j \in Keys : Edge(q, r, j) \in {e} \cup Stay

\* PutAndEvict(k, s) on q reaches the loops of prune: k is new or Cold, and
\* Hot size + Warm size is over the capacity once k is linked
Prunes(q, k, s) ==
  /\ Residency(q, k) \in {-1, twoQCold}
  /\ Size(Inserted(q, k, s)) > cap

\* C28: under Get and PutAndEvict a key's residency changes only along these
\* edges: absent to Warm (the put of a new key), Warm to Hot (get or put),
\* Hot to Hot, Cold to Hot (put), Warm to Cold and Hot to Cold (the evictions
\* of a prune), Cold to absent (the trim of Cold); never Hot to Warm, Cold to
\* Warm or absent to Hot.  A PutAndEvict is followed through its stages:
\* insertion, eviction from Warm, eviction from Hot, trim of Cold.
C28_ResidencyEdges ==
  [][/\ (call'.op = "Get" /\ nops' = nops + 1) =>
          MovesOnly(tq, tq', call'.key, {<< twoQWarm, twoQHot >>})
     /\ IsPut =>
          \A k \in {call'.key} :
          \A m \in {Inserted(tq, k, call'.size)} :
             /\ MovesOnly(tq, m, k, {<< -1, twoQWarm >>, << twoQWarm, twoQHot >>,
                                     << twoQCold, twoQHot >>})
             /\ IF ~Prunes(tq, k, call'.size)
                THEN tq' = m
                ELSE \A w \in {evict(m, twoQWarm).q} :
                     \A h \in {evict(w, twoQHot).q} :
                        /\ MovesAlong(m, w, << twoQWarm, twoQCold >>)
                        /\ MovesAlong(w, h, << twoQHot, twoQCold >>)
                        /\ MovesAlong(h, pruneCold(h), << twoQCold, -1 >>)
                        /\ tq' = pruneCold(h)]_vars

\* a PutAndEvict of a new key has put it in Warm, evicted it from Warm and
\* then a key from Hot, and trimmed the new key out of Cold, where the key
\* evicted from Hot stays
C28_Witness ==
  /\ call.op = "PutAndEvict"
  /\ call.was = -1
  /\ Len(call.evicted) = 2
  /\ call.evicted[1] = call.key
  /\ ~HasKey(tq, call.key)
  /\ Residency(tq, call.evicted[2]) = twoQCold
  /\ tq.list[twoQHot] # << >>

\* the loop condition of evict on the list st
OverBounds(q, st) == Size(q) > pruneCap /\ q.size[st] > listPruneCap[st]

\* q after its tail item has been removed from st and pushed to Cold
TailToCold(q, st) ==
  LET l == [st |-> st, idx |-> Len(q.list[st])]
  IN pushToFront(removeElem(q, st, l), twoQCold, q.list[st][l.idx])

\* q after n such removals from st
RECURSIVE AfterRemovals(_, _, _)
AfterRemovals(q, st, n) ==
  IF n = 0 THEN q ELSE AfterRemovals(TailToCold(q, st), st, n - 1)

\* evict on st, run on q, returned e: each of its removals found both sizes
\* over their prune capacities, and it stopped where one was not, or where
\* the list had no item left
DoubleBound(q, st, e) ==
  LET n == Len(e.evicted)
  IN /\ \A j \in 0..(n - 1) :
          \A p \in {AfterRemovals(q, st, j)} :
             /\ p.list[st] # << >>
             /\ OverBounds(p, st)
             /\ e.evicted[j + 1] = p.list[st][Len(p.list[st])].key
     /\ e.q = AfterRemovals(q, st, n)
     /\ ~OverBounds(e.q, st) \/ e.q.list[st] = << >>

\* C29: during a prune an item is removed from Warm (or Hot) and pushed to
\* Cold only if, right before that removal, Hot size + Warm size is over the
\* total prune capacity and the size of its own list is over that list's
\* prune capacity; the eviction from a list stops at the first state where
\* one of the two is not (or where the list is empty).
C29_DoubleBound ==
  [][(IsPut /\ Prunes(tq, call'.key, call'.size)) =>
        \A w \in {evict(Inserted(tq, call'.key, call'.size), twoQWarm)} :
        \A h \in {evict(w.q, twoQHot)} :
           /\ DoubleBound(Inserted(tq, call'.key, call'.size), twoQWarm, w)
           /\ DoubleBound(w.q, twoQHot, h)
           /\ call'.evicted = w.evicted \o h.evicted
           /\ tq' = pruneCold(h.q)]_vars

\* a prune has evicted two keys from Warm and stopped with an item left in
\* Warm, then evicted from Hot and stopped with an item left in Hot
C29_Witness ==
  /\ call.op = "PutAndEvict"
  /\ call.was \in {-1, twoQCold}
  /\ Len(call.evicted) >= 2
  /\ tq.list[twoQWarm] # << >>
  /\ tq.list[twoQHot] # << >>

\* C30: whenever a prune evicts a key from Hot, the size of Warm is at most
\* Warm's prune capacity at that moment.
C30_HotAfterWarm ==
  [][(IsPut /\ Prunes(tq, call'.key, call'.size)) =>
        \A w \in {evict(Inserted(tq, call'.key, call'.size), twoQWarm).q} :
           evict(w, twoQHot).evicted # << >> =>
              w.size[twoQWarm] <= listPruneCap[twoQWarm]]_vars

(***************************************************************************)
(* Properties of the startup load, checked under SpecOpen.                 *)
(***************************************************************************)
\* the keys the bucket b holds
Stored(b) == {k \in Keys : b[k] # Nil}

Returned(t, role, val, err) ==
  [loc[t] EXCEPT !.role = role, !.ret = [val |-> val, err |-> err]]

\* a Get that counts a miss for an empty key before it rejects it
GetCall_CountsMiss(t, k) ==
  /\ pc[t] = "idle"
  /\ ncalls < MaxCalls
  /\ ncalls' = ncalls + 1
  /\ IF k = ""
     THEN /\ loc' = [loc EXCEPT ![t] =
                       [NoLocals EXCEPT !.role = "nokey",
                                        !.ret = [val |-> Nil, err |-> ErrNoKey]]]
          /\ stats' = [stats EXCEPT !.misses = @ + 1]
          /\ UNCHANGED << pc, tally >>
     ELSE /\ loc' = [loc EXCEPT ![t] =
                       [NoLocals EXCEPT !.key = k, !.role = "lookup",
                                        !.afterEmpty = (loc[t].role = "empty")]]
          /\ pc' = [pc EXCEPT ![t] = "hit"]
          /\ tally' = [tally EXCEPT !.gets = @ + 1]
          /\ UNCHANGED stats
  /\ UNCHANGED << tqVars, bolt, reqs, req, lockVars >>

\* LRU.Get, LRU.GetWriterTo: the empty-key check
GetCall(t, k) ==
  /\ pc[t] = "idle"
  /\ ncalls < MaxCalls
  /\ ncalls' = ncalls + 1
  /\ IF k = ""
     THEN /\ loc' = [loc EXCEPT ![t] =
                       [NoLocals EXCEPT !.role = "nokey",
                                        !.ret = [val |-> Nil, err |-> ErrNoKey]]]
          /\ UNCHANGED << pc, tally >>
     ELSE /\ loc' = [loc EXCEPT ![t] =
                       [NoLocals EXCEPT !.key = k, !.role = "lookup",
                                        !.afterEmpty = (loc[t].role = "empty")]]
          /\ pc' = [pc EXCEPT ![t] = "hit"]
          /\ tally' = [tally EXCEPT !.gets = @ + 1]
  /\ UNCHANGED << tqVars, bolt, reqs, req, stats, lockVars >>

\* LRU.hit
hit(t) ==
  /\ pc[t] = "hit"
  /\ LET r == Get(tq, loc[t].key)
     IN /\ tq' = r.q
        /\ loc' = [loc EXCEPT ![t].size = r.ret]
        /\ IF r.ret >= 0
           THEN /\ stats' = [stats EXCEPT !.hits = @ + 1, !.bget = @ + r.ret]
                /\ pc' = [pc EXCEPT ![t] = "getFromBolt"]
                /\ UNCHANGED tally
           ELSE /\ stats' = [stats EXCEPT !.misses = @ + 1]
                /\ pc' = [pc EXCEPT ![t] = "getFromStore"]
                /\ tally' = [tally EXCEPT !.misses = @ + 1]
  /\ UNCHANGED << call, nops, bolt, reqs, req, ncalls, lockVars >>

\* LRU.getFromBolt, and the return of Get on a value found
getFromBolt(t) ==
  /\ pc[t] = "getFromBolt"
  /\ IF bolt[loc[t].key] # Nil
     THEN /\ loc' = [loc EXCEPT ![t] = Returned(t, "hit", bolt[loc[t].key], NoErr)]
          /\ pc' = [pc EXCEPT ![t] = "idle"]
          /\ tally' = [tally EXCEPT !.hits = @ + 1, !.hitBytes = @ + loc[t].size]
     ELSE /\ pc' = [pc EXCEPT ![t] = "hitToMiss"]
          /\ tally' = [tally EXCEPT !.downgrades = @ + 1]
          /\ UNCHANGED loc
  /\ UNCHANGED << tqVars, bolt, reqs, req, stats, ncalls, lockVars >>

\* a hitToMiss that leaves the hit counted
hitToMiss_KeepsHit(t) ==
  /\ pc[t] = "hitToMiss"
  /\ stats' = [stats EXCEPT !.bget = @ - loc[t].size, !.misses = @ + 1]
  /\ pc' = [pc EXCEPT ![t] = "getFromStore"]
  /\ UNCHANGED << tqVars, bolt, reqs, req, loc, tally, ncalls, lockVars >>

\* LRU.hitToMiss
hitToMiss(t) ==
  /\ pc[t] = "hitToMiss"
  /\ stats' = [stats EXCEPT !.hits = @ - 1, !.bget = @ - loc[t].size,
                            !.misses = @ + 1]
  /\ pc' = [pc EXCEPT ![t] = "getFromStore"]
  /\ UNCHANGED << tqVars, bolt, reqs, req, loc, tally, ncalls, lockVars >>

\* a getFromStore that registers a request without looking for one
getFromStore_NoLookup(t) ==
  /\ pc[t] = "getFromStore"
  /\ req' = Append(req, newReq(loc[t].key))
  /\ reqs' = [reqs EXCEPT ![loc[t].key] = Len(req) + 1]
  /\ loc' = [loc EXCEPT ![t].r = Len(req) + 1, ![t].role = "leader"]
  /\ pc' = [pc EXCEPT ![t] = "store"]
  /\ UNCHANGED << tqVars, bolt, stats, tally, ncalls, lockVars >>

\* LRU.getFromStore: "register request", the section under muReqs
getFromStore(t) ==
  /\ pc[t] = "getFromStore"
  /\ LET k == loc[t].key
     IN IF reqs[k] # 0
        THEN /\ loc' = [loc EXCEPT ![t].r = reqs[k], ![t].role = "follower"]
             /\ pc' = [pc EXCEPT ![t] = "wait"]
             /\ UNCHANGED << reqs, req >>
        ELSE /\ req' = Append(req, newReq(k))
             /\ reqs' = [reqs EXCEPT ![k] = Len(req) + 1]
             /\ loc' = [loc EXCEPT ![t].r = Len(req) + 1, ![t].role = "leader"]
             /\ pc' = [pc EXCEPT ![t] = "store"]
  /\ UNCHANGED << tqVars, bolt, stats, tally, ncalls, lockVars >>

\* the leader's call of getResFromStore returns: r.value and r.err are
\* assigned and r.wg.Done() is called.  No other goroutine reads r.value or
\* r.err before its r.wg.Wait() returns, so the three statements are one step
storeReturn(t, o) ==
  /\ pc[t] = "store"
  /\ LET res == getResFromStore(o)
     IN req' = [req EXCEPT ![loc[t].r].value = res.val, ![loc[t].r].err = res.err,
                           ![loc[t].r].wg = 0, ![loc[t].r].out = o,
                           ![loc[t].r].res = res]
  /\ pc' = [pc EXCEPT ![t] = "leaderReturn"]
  /\ UNCHANGED << tqVars, bolt, reqs, stats, loc, tally, ncalls, lockVars >>

\* what PostStoreFn may do with the (val, err) of Store.Get: return a
\* value, an error, a value together with an error, or panic
HookOutcomes ==
  {[val |-> 700, err |-> NoErr, panic |-> FALSE],
   [val |-> Nil, err |-> errTest, panic |-> FALSE],
   [val |-> 700, err |-> errTest, panic |-> FALSE],
   [val |-> Nil, err |-> NoErr, panic |-> TRUE]}

\* LRU.getResFromStore of the revision with PostStoreFn, PostStoreFn set:
\* given what Store.Get did (o) and what PostStoreFn does (h).  PostStoreFn
\* is not reached when Store.Get panics
getResFromStoreFn(o, h) ==
  IF o.panic \/ h.panic THEN [val |-> Nil, err |-> errPanic]
  ELSE [val |-> h.val, err |-> h.err]

\* the leader's call of getResFromStore returns, with PostStoreFn set
storeReturnFn(t, o, h) ==
  /\ pc[t] = "store"
  /\ LET res == getResFromStoreFn(o, h)
     IN req' = [req EXCEPT ![loc[t].r].value = res.val, ![loc[t].r].err = res.err,
                           ![loc[t].r].wg = 0, ![loc[t].r].out = o,
                           ![loc[t].r].res = res,
                           ![loc[t].r].fn = IF o.panic THEN @ ELSE @ + 1,
                           ![loc[t].r].post = IF o.panic THEN @ ELSE h]
  /\ pc' = [pc EXCEPT ![t] = "leaderReturn"]
  /\ UNCHANGED << tqVars, bolt, reqs, stats, loc, tally, ncalls, lockVars >>

\* a leader that returns an error without deleting the request
leaderReturn_KeepsReq(t) ==
  /\ pc[t] = "leaderReturn"
  /\ LET r == req[loc[t].r]
     IN IF r.err # NoErr
        THEN /\ loc' = [loc EXCEPT ![t] = Returned(t, "leader", Nil, r.err)]
             /\ UNCHANGED req
        ELSE /\ req' = [req EXCEPT ![loc[t].r].wb = "put"]
             /\ loc' = [loc EXCEPT ![t] = Returned(t, "leader", r.value, NoErr)]
  /\ pc' = [pc EXCEPT ![t] = "idle"]
  /\ UNCHANGED << tqVars, bolt, reqs, stats, tally, ncalls, lockVars >>

\* a leader that deletes the request before it starts the write-back
leaderReturn_DeletesFirst(t) ==
  /\ pc[t] = "leaderReturn"
  /\ LET r == req[loc[t].r]
     IN IF r.err # NoErr
        THEN /\ reqs' = [reqs EXCEPT ![r.key] = 0]
             /\ loc' = [loc EXCEPT ![t] = Returned(t, "leader", Nil, r.err)]
             /\ UNCHANGED req
        ELSE /\ req' = [req EXCEPT ![loc[t].r].wb = "put"]
             /\ loc' = [loc EXCEPT ![t] = Returned(t, "leader", r.value, NoErr)]
             /\ reqs' = [reqs EXCEPT ![r.key] = 0]
  /\ pc' = [pc EXCEPT ![t] = "idle"]
  /\ UNCHANGED << tqVars, bolt, stats, tally, ncalls, lockVars >>

\* the leader's return: on an error deleteReq, otherwise the write-back
\* goroutine is started
leaderReturn(t) ==
  /\ pc[t] = "leaderReturn"
  /\ LET r == req[loc[t].r]
     IN IF r.err # NoErr
        THEN /\ reqs' = [reqs EXCEPT ![r.key] = 0]
             /\ loc' = [loc EXCEPT ![t] = Returned(t, "leader", Nil, r.err)]
             /\ UNCHANGED req
        ELSE /\ req' = [req EXCEPT ![loc[t].r].wb = "put"]
             /\ loc' = [loc EXCEPT ![t] = Returned(t, "leader", r.value, NoErr)]
             /\ UNCHANGED reqs
  /\ pc' = [pc EXCEPT ![t] = "idle"]
  /\ UNCHANGED << tqVars, bolt, stats, tally, ncalls, lockVars >>

\* a follower that reads r.value, r.err without waiting on r.wg
followerReturn_NoWait(t) ==
  /\ pc[t] = "wait"
  /\ loc' = [loc EXCEPT ![t] =
               Returned(t, "follower", req[loc[t].r].value, req[loc[t].r].err)]
  /\ pc' = [pc EXCEPT ![t] = "idle"]
  /\ UNCHANGED << tqVars, bolt, reqs, req, stats, tally, ncalls, lockVars >>

\* a follower: r.wg.Wait() and return r.value, r.err
followerReturn(t) ==
  /\ pc[t] = "wait"
  /\ req[loc[t].r].wg = 0
  /\ loc' = [loc EXCEPT ![t] =
               Returned(t, "follower", req[loc[t].r].value, req[loc[t].r].err)]
  /\ pc' = [pc EXCEPT ![t] = "idle"]
  /\ UNCHANGED << tqVars, bolt, reqs, req, stats, tally, ncalls, lockVars >>

\* a Get that returns the nil of a failed read to its caller
getFromBoltFails_Returns(t) ==
  /\ pc[t] = "getFromBolt"
  /\ loc' = [loc EXCEPT ![t] = Returned(t, "hit", Nil, NoErr)]
  /\ pc' = [pc EXCEPT ![t] = "idle"]
  /\ tally' = [tally EXCEPT !.downgrades = @ + 1]
  /\ UNCHANGED << tqVars, bolt, reqs, req, stats, ncalls, lockVars >>

\* LRU.getFromBolt when db.View returns an error: nil is returned whatever
\* the bucket holds
getFromBoltFails(t) ==
  /\ pc[t] = "getFromBolt"
  /\ pc' = [pc EXCEPT ![t] = "hitToMiss"]
  /\ tally' = [tally EXCEPT !.downgrades = @ + 1]
  /\ UNCHANGED << tqVars, bolt, reqs, req, stats, loc, ncalls, lockVars >>

\* a put that ignores the error of putIntoBolt and adds the item to the index
putIntoBoltFails_AddsItem(id) ==
  /\ id \in DOMAIN req
  /\ req[id].wb = "put"
  /\ LET size == len(req[id].value)
         r == PutAndEvict(tq, req[id].key, size)
     IN /\ tq' = r.q
        /\ stats' = [stats EXCEPT !.puts = @ + 1, !.bput = @ + size]
  /\ req' = [req EXCEPT ![id].wb = "putFailed"]
  /\ UNCHANGED << call, nops, bolt, reqs, pc, loc, tally, ncalls, lockVars >>

\* LRU.put when putIntoBolt returns an error: put returns it and addItem is
\* not called
putIntoBoltFails(id) ==
  /\ id \in DOMAIN req
  /\ req[id].wb = "put"
  /\ req' = [req EXCEPT ![id].wb = "putFailed"]
  /\ UNCHANGED << tqVars, bolt, reqs, stats, pc, loc, tally, ncalls, lockVars >>

\* a write-back that removes the request as soon as the value is in bolt
putIntoBolt_DeletesReq(id) ==
  /\ id \in DOMAIN req
  /\ req[id].wb = "put"
  /\ bolt' = [bolt EXCEPT ![req[id].key] = req[id].value]
  /\ reqs' = [reqs EXCEPT ![req[id].key] = 0]
  /\ req' = [req EXCEPT ![id].wb = "addItem"]
  /\ UNCHANGED << tqVars, stats, pc, loc, tally, ncalls, lockVars >>

\* LRU.put in the write-back goroutine: putIntoBolt
putIntoBolt(id) ==
  /\ id \in DOMAIN req
  /\ req[id].wb = "put"
  /\ bolt' = [bolt EXCEPT ![req[id].key] = req[id].value]
  /\ req' = [req EXCEPT ![id].wb = "addItem"]
  /\ UNCHANGED << tqVars, reqs, stats, pc, loc, tally, ncalls, lockVars >>

\* an addItem that counts the size put as the bytes evicted
addItem_CountsSizePut(id) ==
  /\ id \in DOMAIN req
  /\ req[id].wb = "addItem"
  /\ LET size == len(req[id].value)
         r == PutAndEvict(tq, req[id].key, size)
     IN /\ tq' = r.q
        /\ IF Len(r.evicted) > 0
           THEN /\ stats' = [stats EXCEPT !.puts = @ + 1, !.bput = @ + size,
                                          !.evicted = @ + Len(r.evicted),
                                          !.bevicted = @ + size]
                /\ req' = [req EXCEPT ![id].wb = "deleteFromBolt",
                                      ![id].evicted = r.evicted]
           ELSE /\ stats' = [stats EXCEPT !.puts = @ + 1, !.bput = @ + size]
                /\ req' = [req EXCEPT ![id].wb = "deleteReq"]
  /\ UNCHANGED << call, nops, bolt, reqs, pc, loc, tally, ncalls, lockVars >>

\* an addItem that leaves the evicted keys in the byte store
addItem_NoDelete(id) ==
  /\ id \in DOMAIN req
  /\ req[id].wb = "addItem"
  /\ LET size == len(req[id].value)
         r == PutAndEvict(tq, req[id].key, size)
     IN /\ tq' = r.q
        /\ IF Len(r.evicted) > 0
           THEN stats' = [stats EXCEPT !.puts = @ + 1, !.bput = @ + size,
                                       !.evicted = @ + Len(r.evicted),
                                       !.bevicted = @ + r.bytes]
           ELSE stats' = [stats EXCEPT !.puts = @ + 1, !.bput = @ + size]
  /\ req' = [req EXCEPT ![id].wb = "deleteReq"]
  /\ UNCHANGED << call, nops, bolt, reqs, pc, loc, tally, ncalls, lockVars >>

\* an addItem that puts the key in the index with size 0
addItem_SizeZero(id) ==
  /\ id \in DOMAIN req
  /\ req[id].wb = "addItem"
  /\ LET size == len(req[id].value)
         r == PutAndEvict(tq, req[id].key, 0)
     IN /\ tq' = r.q
        /\ IF Len(r.evicted) > 0
           THEN /\ stats' = [stats EXCEPT !.puts = @ + 1, !.bput = @ + size,
                                          !.evicted = @ + Len(r.evicted),
                                          !.bevicted = @ + r.bytes]
                /\ req' = [req EXCEPT ![id].wb = "deleteFromBolt",
                                      ![id].evicted = r.evicted]
           ELSE /\ stats' = [stats EXCEPT !.puts = @ + 1, !.bput = @ + size]
                /\ req' = [req EXCEPT ![id].wb = "deleteReq"]
  /\ UNCHANGED << call, nops, bolt, reqs, pc, loc, tally, ncalls, lockVars >>

\* LRU.addItem: the section under mu
addItem(id) ==
  /\ id \in DOMAIN req
  /\ req[id].wb = "addItem"
  /\ LET size == len(req[id].value)
         r == PutAndEvict(tq, req[id].key, size)
     IN /\ tq' = r.q
        /\ IF Len(r.evicted) > 0
           THEN /\ stats' = [stats EXCEPT !.puts = @ + 1, !.bput = @ + size,
                                          !.evicted = @ + Len(r.evicted),
                                          !.bevicted = @ + r.bytes]
                /\ req' = [req EXCEPT ![id].wb = "deleteFromBolt",
                                      ![id].evicted = r.evicted]
           ELSE /\ stats' = [stats EXCEPT !.puts = @ + 1, !.bput = @ + size]
                /\ req' = [req EXCEPT ![id].wb = "deleteReq"]
  /\ UNCHANGED << call, nops, bolt, reqs, pc, loc, tally, ncalls, lockVars >>

\* a deleteFromBolt that deletes every key of the bucket
deleteFromBolt_DeletesAll(id) ==
  /\ id \in DOMAIN req
  /\ req[id].wb = "deleteFromBolt"
  /\ bolt' = [k \in LKeys |-> Nil]
  /\ req' = [req EXCEPT ![id].wb = "deleteReq", ![id].evicted = << >>]
  /\ UNCHANGED << tqVars, reqs, stats, pc, loc, tally, ncalls, lockVars >>

\* LRU.deleteFromBolt on the evicted keys
deleteFromBolt(id) ==
  /\ id \in DOMAIN req
  /\ req[id].wb = "deleteFromBolt"
  /\ bolt' = [k \in LKeys |->
                IF \E n \in 1..Len(req[id].evicted) : req[id].evicted[n] = k
                THEN Nil ELSE bolt[k]]
  /\ req' = [req EXCEPT ![id].wb = "deleteReq", ![id].evicted = << >>]
  /\ UNCHANGED << tqVars, reqs, stats, pc, loc, tally, ncalls, lockVars >>

\* LRU.deleteReq at the end of the write-back goroutine, after put returned:
\* wb is "putFailed" when put returned the error of putIntoBolt
deleteReq(id) ==
  /\ id \in DOMAIN req
  /\ req[id].wb \in {"deleteReq", "putFailed"}
  /\ reqs' = [reqs EXCEPT ![req[id].key] = 0]
  /\ req' = [req EXCEPT ![id].wb = "done"]
  /\ UNCHANGED << tqVars, bolt, stats, pc, loc, tally, ncalls, lockVars >>

\* the requests whose write-back goroutine has finished
WriteBacksDone == {id \in DOMAIN req : req[id].wb = "done"}

\* no write-back goroutine is running
NoWriteBack == \A id \in DOMAIN req : req[id].wb \in {"none", "done"}

\* LRU.Empty: the section under mu
EmptyCall(t) ==
  /\ pc[t] = "idle"
  /\ ncalls < MaxCalls
  /\ ncalls' = ncalls + 1
  /\ tq' = Empty(tq)
  /\ loc' = [loc EXCEPT ![t] =
               [NoLocals EXCEPT !.role = "emptying",
                  !.wbDone = IF NoWriteBack THEN Cardinality(WriteBacksDone)
                             ELSE -1]]
  /\ pc' = [pc EXCEPT ![t] = "emptyBolt"]
  /\ UNCHANGED << call, nops, bolt, reqs, req, stats, tally, lockVars >>

\* an emptyBolt that returns without emptying the bucket
emptyBolt_Skips(t) ==
  /\ pc[t] = "emptyBolt"
  /\ loc' = [loc EXCEPT ![t] =
               [NoLocals EXCEPT !.role = "empty",
                  !.quiet = (NoWriteBack
                               /\ Cardinality(WriteBacksDone) = loc[t].wbDone)]]
  /\ pc' = [pc EXCEPT ![t] = "idle"]
  /\ UNCHANGED << tqVars, bolt, reqs, req, stats, tally, ncalls, lockVars >>

\* LRU.emptyBolt, and the return of Empty
emptyBolt(t) ==
  /\ pc[t] = "emptyBolt"
  /\ bolt' = [k \in LKeys |-> Nil]
  /\ loc' = [loc EXCEPT ![t] =
               [NoLocals EXCEPT !.role = "empty",
                  !.quiet = (NoWriteBack
                               /\ Cardinality(WriteBacksDone) = loc[t].wbDone)]]
  /\ pc' = [pc EXCEPT ![t] = "idle"]
  /\ UNCHANGED << tqVars, reqs, req, stats, tally, ncalls, lockVars >>

\* LRU.getStats
getStats(now) ==
  [at |-> now, sTime |-> stats.sTime, uptime |-> now - stats.sTime,
   hits |-> stats.hits, misses |-> stats.misses, bget |-> stats.bget,
   puts |-> stats.puts, bput |-> stats.bput, evicted |-> stats.evicted,
   bevicted |-> stats.bevicted,
   size |-> Size(tq), capacity |-> cap, numItems |-> LenTQ(tq)]

\* LRU.Stats
StatsCall(t) ==
  /\ pc[t] = "idle"
  /\ ncalls < MaxCalls
  /\ ncalls' = ncalls + 1
  /\ loc' = [loc EXCEPT ![t] =
               [NoLocals EXCEPT !.role = "stats", !.snap = getStats(ncalls + 1)]]
  /\ UNCHANGED << tqVars, bolt, reqs, req, stats, pc, tally, lockVars >>

\* a ResetStats that returns the statistics as they are after the reset
ResetStats_ReturnsNew(t) ==
  /\ pc[t] = "idle"
  /\ ncalls < MaxCalls
  /\ ncalls' = ncalls + 1
  /\ loc' = [loc EXCEPT ![t] =
               [NoLocals EXCEPT !.role = "reset",
                  !.snap = [getStats(ncalls + 1) EXCEPT
                              !.sTime = ncalls + 1, !.uptime = 0,
                              !.hits = 0, !.misses = 0, !.bget = 0, !.puts = 0,
                              !.bput = 0, !.evicted = 0, !.bevicted = 0]]]
  /\ stats' = [ZeroStats EXCEPT !.sTime = ncalls + 1]
  /\ UNCHANGED << tqVars, bolt, reqs, req, pc, tally, lockVars >>

\* LRU.ResetStats
ResetStats(t) ==
  /\ pc[t] = "idle"
  /\ ncalls < MaxCalls
  /\ ncalls' = ncalls + 1
  /\ loc' = [loc EXCEPT ![t] =
               [NoLocals EXCEPT !.role = "reset", !.snap = getStats(ncalls + 1)]]
  /\ stats' = [ZeroStats EXCEPT !.sTime = ncalls + 1]
  /\ UNCHANGED << tqVars, bolt, reqs, req, pc, tally, lockVars >>

Init ==
  /\ tq = EmptyTwoQ
  /\ call = NoCall
  /\ nops = 0
  /\ InitLRU

Next ==
  \/ \E t \in Clients, k \in LKeys \cup {""} : GetCall(t, k)
  \/ \E t \in Clients : hit(t)
  \/ \E t \in Clients : getFromBolt(t)
  \/ \E t \in Clients : hitToMiss(t)
  \/ \E t \in Clients : getFromStore(t)
  \/ \E t \in Clients, o \in StoreOutcomes : storeReturn(t, o)
  \/ \E t \in Clients : leaderReturn(t)
  \/ \E t \in Clients : followerReturn(t)
  \/ \E id \in ReqIds : putIntoBolt(id)
  \/ \E id \in ReqIds : addItem(id)
  \/ \E id \in ReqIds : deleteFromBolt(id)
  \/ \E id \in ReqIds : deleteReq(id)
  \/ \E t \in Clients : EmptyCall(t)
  \/ \E t \in Clients : emptyBolt(t)

Spec == Init /\ [][Next]_vars

\* what Store.Get does in SpecStats: it returns a value, or an error
StatsOutcomes == {o \in StoreOutcomes : ~o.panic /\ (o.val \in Values \/ o.err # NoErr)}

\* the cache with its statistics read and reset by the clients
NextStats ==
  \/ \E t \in Clients, k \in LKeys : GetCall(t, k)
  \/ \E t \in Clients : hit(t)
  \/ \E t \in Clients : getFromBolt(t)
  \/ \E t \in Clients : hitToMiss(t)
  \/ \E t \in Clients : getFromStore(t)
  \/ \E t \in Clients, o \in StatsOutcomes : storeReturn(t, o)
  \/ \E t \in Clients : leaderReturn(t)
  \/ \E t \in Clients : followerReturn(t)
  \/ \E id \in ReqIds : putIntoBolt(id)
  \/ \E id \in ReqIds : addItem(id)
  \/ \E id \in ReqIds : deleteFromBolt(id)
  \/ \E id \in ReqIds : deleteReq(id)
  \/ \E t \in Clients : EmptyCall(t)
  \/ \E t \in Clients : emptyBolt(t)
  \/ \E t \in Clients : StatsCall(t)
  \/ \E t \in Clients : ResetStats(t)

SpecStats == Init /\ [][NextStats]_vars

\* the cache of the revision with PostStoreFn, PostStoreFn set
NextFn ==
  \/ \E t \in Clients, k \in LKeys : GetCall(t, k)
  \/ \E t \in Clients : hit(t)
  \/ \E t \in Clients : getFromBolt(t)
  \/ \E t \in Clients : getFromBoltFails(t)
  \/ \E t \in Clients : hitToMiss(t)
  \/ \E t \in Clients : getFromStore(t)
  \/ \E t \in Clients, o \in StatsOutcomes, h \in HookOutcomes : storeReturnFn(t, o, h)
  \/ \E t \in Clients : leaderReturn(t)
  \/ \E t \in Clients : followerReturn(t)
  \/ \E id \in ReqIds : putIntoBolt(id)
  \/ \E id \in ReqIds : addItem(id)
  \/ \E id \in ReqIds : deleteFromBolt(id)
  \/ \E id \in ReqIds : deleteReq(id)

SpecFn == Init /\ [][NextFn]_vars

\* the cache over a byte store whose reads and writes may fail (the bolt
\* database returns an error), with no call of Empty
NextWB ==
  \/ \E t \in Clients, k \in LKeys : GetCall(t, k)
  \/ \E t \in Clients : hit(t)
  \/ \E t \in Clients : getFromBolt(t)
  \/ \E t \in Clients : getFromBoltFails(t)
  \/ \E t \in Clients : hitToMiss(t)
  \/ \E t \in Clients : getFromStore(t)
  \/ \E t \in Clients, o \in StatsOutcomes : storeReturn(t, o)
  \/ \E t \in Clients : leaderReturn(t)
  \/ \E t \in Clients : followerReturn(t)
  \/ \E id \in ReqIds : putIntoBolt(id)
  \/ \E id \in ReqIds : putIntoBoltFails(id)
  \/ \E id \in ReqIds : addItem(id)
  \/ \E id \in ReqIds : deleteFromBolt(id)
  \/ \E id \in ReqIds : deleteReq(id)

SpecWB == Init /\ [][NextWB]_vars

\* the cache over a byte store whose reads may fail, with its statistics
\* read and reset by the clients; no call of Empty
NextRS ==
  \/ \E t \in Clients, k \in LKeys : GetCall(t, k)
  \/ \E t \in Clients : hit(t)
  \/ \E t \in Clients : getFromBolt(t)
  \/ \E t \in Clients : getFromBoltFails(t)
  \/ \E t \in Clients : hitToMiss(t)
  \/ \E t \in Clients : getFromStore(t)
  \/ \E t \in Clients, o \in StatsOutcomes : storeReturn(t, o)
  \/ \E t \in Clients : leaderReturn(t)
  \/ \E t \in Clients : followerReturn(t)
  \/ \E id \in ReqIds : putIntoBolt(id)
  \/ \E id \in ReqIds : addItem(id)
  \/ \E id \in ReqIds : deleteFromBolt(id)
  \/ \E id \in ReqIds : deleteReq(id)
  \/ \E t \in Clients : StatsCall(t)
  \/ \E t \in Clients : ResetStats(t)

SpecRS == Init /\ [][NextRS]_vars

(***************************************************************************)
(* The cache coordinator with its two mutexes.  In Spec a section run      *)
(* under l.mu or l.muReqs is one step; here Lock, the section and Unlock   *)
(* are three steps, and a goroutine takes a step outside its sections only *)
(* when it has released what it locked.                                    *)
(***************************************************************************)
\* a goroutine that skips the Unlock calls
Unlocked_Always(o) == TRUE

\* goroutine o has run the Unlock of every Lock it has run
Unlocked(o) == mu # o /\ muReqs # o

\* l.mu.Lock() in hit and hitToMiss
lockMu(t) ==
  /\ pc[t] \in {"hit", "hitToMiss"}
  /\ Unlocked(ClientOwner(t))
  /\ mu = NoOwner
  /\ mu' = ClientOwner(t)
  /\ UNCHANGED << tqVars, bolt, reqs, req, stats, pc, loc, tally, ncalls, muReqs >>

\* the calls made, with the call of Empty that has locked l.mu and is not
\* counted in ncalls yet
Started ==
  ncalls + Cardinality({u \in Clients : pc[u] = "idle" /\ mu = ClientOwner(u)})

\* l.mu.Lock() in Empty
lockMuEmpty(t) ==
  /\ pc[t] = "idle"
  /\ Started < MaxCalls
  /\ Unlocked(ClientOwner(t))
  /\ mu = NoOwner
  /\ mu' = ClientOwner(t)
  /\ UNCHANGED << tqVars, bolt, reqs, req, stats, pc, loc, tally, ncalls, muReqs >>

\* l.mu.Unlock() in hit, hitToMiss and Empty, when the section has run
unlockMu(t) ==
  /\ mu = ClientOwner(t)
  /\ pc[t] \in {"getFromBolt", "getFromStore", "emptyBolt"}
  /\ mu' = NoOwner
  /\ UNCHANGED << tqVars, bolt, reqs, req, stats, pc, loc, tally, ncalls, muReqs >>

\* the leader is about to call deleteReq: getResFromStore returned an error
LeaderFailed(t) == pc[t] = "leaderReturn" /\ req[loc[t].r].err # NoErr

\* l.muReqs.Lock() in getFromStore and in the leader's deleteReq
lockMuReqs(t) ==
  /\ pc[t] = "getFromStore" \/ LeaderFailed(t)
  /\ Unlocked(ClientOwner(t))
  /\ muReqs = NoOwner
  /\ muReqs' = ClientOwner(t)
  /\ UNCHANGED << tqVars, bolt, reqs, req, stats, pc, loc, tally, ncalls, mu >>

\* a getFromStore that returns to r.wg.Wait() with l.muReqs locked
unlockMuReqs_NotBeforeWait(t) ==
  /\ muReqs = ClientOwner(t)
  /\ pc[t] \in {"store", "idle"}
  /\ muReqs' = NoOwner
  /\ UNCHANGED << tqVars, bolt, reqs, req, stats, pc, loc, tally, ncalls, mu >>

\* l.muReqs.Unlock() in getFromStore and deleteReq, when the section has run
unlockMuReqs(t) ==
  /\ muReqs = ClientOwner(t)
  /\ pc[t] \in {"wait", "store", "idle"}
  /\ muReqs' = NoOwner
  /\ UNCHANGED << tqVars, bolt, reqs, req, stats, pc, loc, tally, ncalls, mu >>

\* l.mu.Lock() in addItem, in the write-back goroutine
wbLockMu(id) ==
  /\ id \in DOMAIN req
  /\ req[id].wb = "addItem"
  /\ Unlocked(WbOwner(id))
  /\ mu = NoOwner
  /\ mu' = WbOwner(id)
  /\ UNCHANGED << tqVars, bolt, reqs, req, stats, pc, loc, tally, ncalls, muReqs >>

\* l.mu.Unlock() in addItem, on either branch
wbUnlockMu(id) ==
  /\ id \in DOMAIN req
  /\ mu = WbOwner(id)
  /\ req[id].wb \in {"deleteFromBolt", "deleteReq"}
  /\ mu' = NoOwner
  /\ UNCHANGED << tqVars, bolt, reqs, req, stats, pc, loc, tally, ncalls, muReqs >>

\* l.muReqs.Lock() in the deleteReq of the write-back goroutine
wbLockMuReqs(id) ==
  /\ id \in DOMAIN req
  /\ req[id].wb = "deleteReq"
  /\ Unlocked(WbOwner(id))
  /\ muReqs = NoOwner
  /\ muReqs' = WbOwner(id)
  /\ UNCHANGED << tqVars, bolt, reqs, req, stats, pc, loc, tally, ncalls, mu >>

\* l.muReqs.Unlock() in the deleteReq of the write-back goroutine
wbUnlockMuReqs(id) ==
  /\ id \in DOMAIN req
  /\ muReqs = WbOwner(id)
  /\ req[id].wb = "done"
  /\ muReqs' = NoOwner
  /\ UNCHANGED << tqVars, bolt, reqs, req, stats, pc, loc, tally, ncalls, mu >>

\* what Store.Get does in SpecLk: it returns the larger value, or an error,
\* or panics
LockOutcomes ==
  {o \in StoreOutcomes :
     o.panic \/ o.err # NoErr \/ \A v \in Values : v <= o.val}

\* the sections, run by the goroutine that holds the mutex, and the steps
\* outside them
NextLk ==
  \/ \E t \in Clients, k \in LKeys :
        Unlocked(ClientOwner(t)) /\ Started < MaxCalls /\ GetCall(t, k)
  \/ \E t \in Clients : lockMu(t)
  \/ \E t \in Clients : mu = ClientOwner(t) /\ hit(t)
  \/ \E t \in Clients : mu = ClientOwner(t) /\ hitToMiss(t)
  \/ \E t \in Clients : unlockMu(t)
  \/ \E t \in Clients : Unlocked(ClientOwner(t)) /\ getFromBolt(t)
  \/ \E t \in Clients : lockMuReqs(t)
  \/ \E t \in Clients : muReqs = ClientOwner(t) /\ getFromStore(t)
  \/ \E t \in Clients : unlockMuReqs(t)
  \/ \E t \in Clients, o \in LockOutcomes :
        Unlocked(ClientOwner(t)) /\ storeReturn(t, o)
  \/ \E t \in Clients :
        /\ IF LeaderFailed(t) THEN muReqs = ClientOwner(t)
                              ELSE Unlocked(ClientOwner(t))
        /\ leaderReturn(t)
  \/ \E t \in Clients : Unlocked(ClientOwner(t)) /\ followerReturn(t)
  \/ \E id \in ReqIds : Unlocked(WbOwner(id)) /\ putIntoBolt(id)
  \/ \E id \in ReqIds : wbLockMu(id)
  \/ \E id \in ReqIds : mu = WbOwner(id) /\ addItem(id)
  \/ \E id \in ReqIds : wbUnlockMu(id)
  \/ \E id \in ReqIds : Unlocked(WbOwner(id)) /\ deleteFromBolt(id)
  \/ \E id \in ReqIds : wbLockMuReqs(id)
  \/ \E id \in ReqIds : muReqs = WbOwner(id) /\ deleteReq(id)
  \/ \E id \in ReqIds : wbUnlockMuReqs(id)
  \/ \E t \in Clients : lockMuEmpty(t)
  \/ \E t \in Clients : mu = ClientOwner(t) /\ EmptyCall(t)
  \/ \E t \in Clients : Unlocked(ClientOwner(t)) /\ emptyBolt(t)

SpecLk == Init /\ [][NextLk]_vars

\* the key the clients ask for in SpecLive
LiveKeys == {"a"}

\* a step of a call or of a write-back goroutine that has started, in a
\* cache asked for one key: every step of NextLk but the start of a call
\* (GetCall, the Lock of Empty); with one key PutAndEvict evicts nothing, so
\* that deleteFromBolt is not called
Progress ==
  \/ \E t \in Clients : lockMu(t)
  \/ \E t \in Clients : mu = ClientOwner(t) /\ hit(t)
  \/ \E t \in Clients : mu = ClientOwner(t) /\ hitToMiss(t)
  \/ \E t \in Clients : unlockMu(t)
  \/ \E t \in Clients : Unlocked(ClientOwner(t)) /\ getFromBolt(t)
  \/ \E t \in Clients : lockMuReqs(t)
  \/ \E t \in Clients : muReqs = ClientOwner(t) /\ getFromStore(t)
  \/ \E t \in Clients : unlockMuReqs(t)
  \/ \E t \in Clients, o \in LockOutcomes :
        Unlocked(ClientOwner(t)) /\ storeReturn(t, o)
  \/ \E t \in Clients :
        /\ IF LeaderFailed(t) THEN muReqs = ClientOwner(t)
                              ELSE Unlocked(ClientOwner(t))
        /\ leaderReturn(t)
  \/ \E t \in Clients : Unlocked(ClientOwner(t)) /\ followerReturn(t)
  \/ \E id \in ReqIds : Unlocked(WbOwner(id)) /\ putIntoBolt(id)
  \/ \E id \in ReqIds : wbLockMu(id)
  \/ \E id \in ReqIds : mu = WbOwner(id) /\ addItem(id)
  \/ \E id \in ReqIds : wbUnlockMu(id)
  \/ \E id \in ReqIds : wbLockMuReqs(id)
  \/ \E id \in ReqIds : muReqs = WbOwner(id) /\ deleteReq(id)
  \/ \E id \in ReqIds : wbUnlockMuReqs(id)
  \/ \E t \in Clients : mu = ClientOwner(t) /\ EmptyCall(t)
  \/ \E t \in Clients : Unlocked(ClientOwner(t)) /\ emptyBolt(t)

\* the calls the clients start, and the steps of what has started
NextLive ==
  \/ \E t \in Clients, k \in LiveKeys :
        Unlocked(ClientOwner(t)) /\ Started < MaxCalls /\ GetCall(t, k)
  \/ \E t \in Clients : lockMuEmpty(t)
  \/ Progress

\* a goroutine that can run is run: the calls and write-backs that have
\* started go on as long as one of them has a step to take; whether a client
\* starts a call is left open
SpecLive == Init /\ [][NextLive]_vars /\ WF_vars(Progress)

(***************************************************************************)
(* Properties of the cache coordinator, checked under Spec.                *)
(***************************************************************************)
\* the clients whose call of Store.Get for key k is in flight
InStore(k) == {t \in Clients : pc[t] = "store" /\ loc[t].key = k}

\* C1: for every key at most one call of the origin's Get is in flight, and
\* it is the call of the registered request; a caller that misses while a
\* request is registered waits on that request.
C1_SingleFlight ==
  \A k \in LKeys :
    /\ Cardinality(InStore(k)) <= 1
    /\ \A t \in InStore(k) : reqs[k] = loc[t].r
    /\ \A t \in Clients :
         (pc[t] = "wait" /\ loc[t].key = k) =>
            (loc[t].r \in DOMAIN req /\ req[loc[t].r].key = k)

\* one client is in the origin for a key while the other waits on its request
C1_Witness ==
  \E t, u \in Clients :
    /\ pc[t] = "store"
    /\ pc[u] = "wait"
    /\ loc[u].key = loc[t].key
    /\ loc[u].r = loc[t].r

\* C2: every follower returns the (value, error) pair that the leader of its
\* request obtained from the origin and returned.
C2_FollowersSeeLeaderResult ==
  \A t \in Clients :
    (pc[t] = "idle" /\ loc[t].role = "follower") =>
      /\ loc[t].ret = req[loc[t].r].res
      /\ \A u \in Clients :
           (pc[u] = "idle" /\ loc[u].role = "leader" /\ loc[u].r = loc[t].r)
              => loc[u].ret = loc[t].ret

\* a leader and a follower of the same request have both returned
C2_Witness ==
  \E t, u \in Clients :
    /\ pc[t] = "idle" /\ loc[t].role = "follower"
    /\ pc[u] = "idle" /\ loc[u].role = "leader"
    /\ loc[u].r = loc[t].r
    /\ loc[t].ret.val # Nil

\* no Get is part-way through its lookup
LookupsAtRest ==
  \A t \in Clients : pc[t] \notin {"hit", "getFromBolt", "hitToMiss"}

\* C7: whenever no Get is part-way through its lookup, hits + misses is the
\* number of Gets that passed the empty-key check; a lookup that found the
\* value counts one hit and its size, a lookup downgraded because the byte
\* store lacks the key counts one miss, no hit and no get_bytes.
C7_HitsPlusMisses ==
  LookupsAtRest =>
    /\ stats.hits + stats.misses = tally.gets
    /\ stats.hits = tally.hits
    /\ stats.misses = tally.misses + tally.downgrades
    /\ stats.bget = tally.hitBytes

\* a downgraded lookup and a successful one have both been counted
C7_Witness ==
  /\ LookupsAtRest
  /\ tally.downgrades >= 1
  /\ tally.gets >= 2

\* no Get, write-back or Empty is in progress
AtRest ==
  /\ \A t \in Clients : pc[t] = "idle"
  /\ \A id \in DOMAIN req : req[id].wb \in {"none", "done"}

\* C8: whenever no Get, write-back or Empty is in progress, every key that is
\* Hot or Warm in the index has a value in the byte store.
C8_HotWarmInByteStore ==
  AtRest =>
    \A k \in LKeys :
      Residency(tq, k) \in {twoQHot, twoQWarm} => bolt[k] # Nil

\* the other clients have made no call
OnlyCaller(t) == \A u \in Clients \ {t} : loc[u] = NoLocals /\ pc[u] = "idle"

\* the index and the byte store of a fresh cache after Get(k) has stored v
FreshAfterGet(k, v) ==
  /\ tq = Inserted(EmptyTwoQ, k, len(v))
  /\ bolt = [j \in LKeys |-> IF j = k THEN v ELSE Nil]

\* C15: Empty() followed by Get(k), by the only caller of the cache, does
\* what Get(k) does on a fresh cache: it misses and consults the origin for
\* k itself, returns what the origin gave, and once its write-back is over
\* the index and the byte store hold k alone (nothing after an error).
C15_EmptyThenGetAsFresh ==
  \A t \in Clients :
    (/\ pc[t] = "idle"
     /\ loc[t].afterEmpty
     /\ loc[t].role \in {"hit", "leader", "follower"}
     /\ OnlyCaller(t))
    => /\ loc[t].role = "leader"
       /\ loc[t].ret = req[loc[t].r].res
       /\ (loc[t].ret.err # NoErr /\ NoWriteBack)
             => (tq = EmptyTwoQ /\ bolt = [j \in LKeys |-> Nil])
       /\ (loc[t].ret.err = NoErr /\ NoWriteBack)
             => FreshAfterGet(loc[t].key, loc[t].ret.val)

\* the index, its counters and the byte store are empty
AllEmpty ==
  /\ \A st \in Statuses : tq.list[st] = << >> /\ tq.size[st] = 0
  /\ \A k \in LKeys : ~HasKey(tq, k) /\ bolt[k] = Nil
  /\ LenTQ(tq) = 0

IsReset(t) ==
  loc'[t].role = "reset" /\ loc'[t].snap.at = ncalls' /\ ncalls' = ncalls + 1

IsStats(t) ==
  loc'[t].role = "stats" /\ loc'[t].snap.at = ncalls' /\ ncalls' = ncalls + 1

\* the Stats value s reports the Hot and Warm occupancy of index q
ReportsHotWarm(s, q) ==
  /\ s.size = q.size[twoQHot] + q.size[twoQWarm]
  /\ s.numItems = Len(q.list[twoQHot]) + Len(q.list[twoQWarm])
  /\ s.capacity = cap

\* C17: ResetStats returns the statistics as they were right before it and,
\* in the same step, sets hits, misses, get_bytes, puts, put_bytes,
\* evicted_items and evicted_bytes to 0; it leaves the index alone, and the
\* Size, Capacity and NumItems that Stats and ResetStats return are those of
\* Hot and Warm (TwoQ.Size, TwoQ.Len), Cold left out.
C17_ResetStats ==
  [][\A t \in Clients :
       /\ IsReset(t) =>
            /\ \A f \in {"hits", "misses", "bget", "puts", "bput", "evicted",
                          "bevicted"} :
                  loc'[t].snap[f] = stats[f] /\ stats'[f] = 0
            /\ tq' = tq
            /\ ReportsHotWarm(loc'[t].snap, tq)
       /\ IsStats(t) =>
            /\ stats' = stats
            /\ tq' = tq
            /\ loc'[t].snap.hits = stats.hits
            /\ ReportsHotWarm(loc'[t].snap, tq)]_vars

\* a ResetStats has returned counters that were not zero, with one item in
\* Warm and a ghost in Cold
C17_Witness ==
  \E t \in Clients :
    /\ loc[t].role = "reset"
    /\ loc[t].snap.misses >= 2
    /\ loc[t].snap.evicted >= 1
    /\ loc[t].snap.numItems = 1
    /\ tq.list[twoQCold] # << >>
    /\ stats.misses = 0
    /\ stats.evicted = 0

\* a step in which client t calls Get with an empty key
IsNoKeyCall(t) ==
  /\ ncalls' = ncalls + 1
  /\ pc' = pc
  /\ loc'[t].role = "nokey"
  /\ \A u \in Clients \ {t} : loc'[u] = loc[u]

\* C18: Get (GetWriterTo) with an empty key returns ErrNoKey and no value,
\* and changes nothing: no counter, the index, the byte store, the requests.
C18_NoKey ==
  [][\A t \in Clients :
       IsNoKeyCall(t) =>
         /\ loc'[t].ret = [val |-> Nil, err |-> ErrNoKey]
         /\ UNCHANGED << tq, bolt, reqs, req, stats, tally >>]_vars

\* an empty key has been rejected on a cache that holds a value and has
\* counted a miss
C18_Witness ==
  \E t \in Clients :
    /\ loc[t].role = "nokey"
    /\ pc[t] = "idle"
    /\ stats.misses >= 1
    /\ LenTQ(tq) >= 1

\* a step in which client t, leader of a request, returns from getFromStore
IsLeaderReturn(t) == pc[t] = "leaderReturn" /\ pc'[t] = "idle"

\* a registered request whose origin call failed is still being finished by
\* its leader, and no write-back is started for it
NoErrorCached ==
  /\ \A k \in LKeys :
       (reqs[k] # 0 /\ req[reqs[k]].out.err # NoErr) =>
          \E t \in Clients :
             /\ loc[t].r = reqs[k]
             /\ pc[t] = "leaderReturn"
  /\ \A id \in DOMAIN req : req[id].out.err # NoErr => req[id].wb = "none"

\* C19: when the origin returns an error for k, Get returns that error and
\* no value, writes nothing to the byte store or the index, leaves puts and
\* put_bytes alone and removes the request of k, so that the error is not
\* kept: a later Get(k) that misses calls the origin again.
C19_OriginError ==
  [][/\ \A t \in Clients :
          (IsLeaderReturn(t) /\ req[loc[t].r].out.err # NoErr) =>
             /\ loc'[t].ret = [val |-> Nil, err |-> req[loc[t].r].out.err]
             /\ reqs'[loc[t].key] = 0
             /\ req'[loc[t].r].wb = "none"
             /\ UNCHANGED << tq, bolt, stats >>
     /\ NoErrorCached']_vars

\* the origin failed for a key, the error was returned, and a later Get of
\* the key has called the origin again
C19_Witness ==
  \E i, j \in DOMAIN req :
    /\ i < j
    /\ req[i].key = req[j].key
    /\ req[i].out.err = errTest
    /\ req[j].wg = 0
    /\ \E t \in Clients :
         pc[t] = "idle" /\ loc[t].r = j /\ loc[t].role = "leader"

\* the origin returned no error and a value that is nil or has no bytes
NoValueOutcome(o) ==
  o.err = NoErr /\ ~o.panic /\ o.val \in {Nil, EmptyValue}

\* C20: if the origin returns a nil or empty value with no error, Get returns
\* ErrNoValue, and nothing is written to the byte store or the index (no
\* write-back is started).
C20_NoValue ==
  /\ \A t \in Clients :
       (/\ pc[t] = "idle"
        /\ loc[t].role \in {"leader", "follower"}
        /\ NoValueOutcome(req[loc[t].r].out))
       => loc[t].ret = [val |-> Nil, err |-> ErrNoValue]
  /\ \A id \in DOMAIN req :
       (req[id].wg = 0 /\ NoValueOutcome(req[id].out)) => req[id].wb = "none"

\* a request whose origin call panicked has released its barrier, and no
\* write-back is started for it; a follower of it has returned the error
PanicHandled ==
  /\ \A id \in DOMAIN req :
       req[id].out.panic =>
          /\ req[id].wg = 0
          /\ req[id].wb = "none"
          /\ req[id].res = [val |-> Nil, err |-> errPanic]
  /\ \A t \in Clients :
       (pc[t] = "idle" /\ loc[t].role = "follower" /\ req[loc[t].r].out.panic)
          => loc[t].ret = [val |-> Nil, err |-> errPanic]

\* C21: when the origin's Get panics, the leader's Get returns no value and
\* the error "panic: <recovered>", the barrier is released so that every
\* follower returns that error, nothing is written to the byte store or the
\* index, and the request of the key is removed.
C21_OriginPanic ==
  [][/\ \A t \in Clients :
          (IsLeaderReturn(t) /\ req[loc[t].r].out.panic) =>
             /\ loc'[t].ret = [val |-> Nil, err |-> errPanic]
             /\ reqs'[loc[t].key] = 0
             /\ req'[loc[t].r].wb = "none"
             /\ UNCHANGED << tq, bolt, stats >>
     /\ PanicHandled']_vars

\* the origin panicked, and the leader and a follower of the request have
\* both returned the error
C21_Witness ==
  \E t, u \in Clients :
    /\ pc[t] = "idle" /\ loc[t].role = "follower"
    /\ pc[u] = "idle" /\ loc[u].role = "leader"
    /\ loc[u].r = loc[t].r
    /\ req[loc[t].r].out.panic
    /\ loc[t].ret.err = errPanic
    /\ reqs[loc[t].key] = 0

(***************************************************************************)
(* Properties of the cache over a failing byte store, checked under SpecWB.*)
(***************************************************************************)
\* a step in which the write-back goroutine of request id ends after a
\* successful put
IsWriteBackEnd(id) ==
  id \in DOMAIN req /\ req[id].wb = "deleteReq" /\ req'[id].wb = "done"

\* C22: Get(k) on a miss returns the origin's value v at once; when the
\* write-back of v has completed and k has not been evicted (no Empty is
\* called), the byte store maps k to v and the index holds k in Warm or Hot
\* with size len(v); a Get(k) that follows counts one hit and len(v) more
\* get_bytes and returns v from the byte store without a request to the
\* origin.
C22_WriteBackThenHit ==
  [][/\ \A t \in Clients :
          (IsLeaderReturn(t) /\ req[loc[t].r].out.val # Nil) =>
             loc'[t].ret = [val |-> req[loc[t].r].out.val, err |-> NoErr]
     /\ \A id \in ReqIds :
          (IsWriteBackEnd(id)
             /\ Residency(tq, req[id].key) \in {twoQHot, twoQWarm}) =>
             /\ bolt'[req[id].key] = req[id].value
             /\ Item(tq', req[id].key).size = len(req[id].value)
     /\ \A t \in Clients :
          (pc[t] = "hit" /\ pc'[t] = "getFromBolt") =>
             /\ stats'.hits = stats.hits + 1
             /\ stats'.bget = stats.bget + Item(tq, loc[t].key).size
     /\ \A t \in Clients :
          (pc[t] = "getFromBolt" /\ pc'[t] = "idle") =>
             /\ loc'[t].ret = [val |-> bolt[loc[t].key], err |-> NoErr]
             /\ UNCHANGED << reqs, req >>]_vars

\* what a Get returns for the origin outcome o: its value, or its error
OriginResult(o) ==
  IF o.err # NoErr THEN [val |-> Nil, err |-> o.err]
  ELSE [val |-> o.val, err |-> NoErr]

\* client t has returned from a Get whose lookup hit the index
ReturnedAfterHit(t) ==
  /\ pc[t] = "idle"
  /\ loc[t].size >= 0
  /\ loc[t].role \in {"hit", "leader", "follower"}

Post(id) == [val |-> req[id].post.val, err |-> req[id].post.err]

\* C26: with PostStoreFn set, it is called exactly once for each fetch from
\* the origin, by the leader; the (value, error) it returns is what the
\* leader returns and what every follower of the fetch returns, and its
\* value is the one written to the cache.
C26_PostStoreFn ==
  /\ \A id \in DOMAIN req :
       /\ req[id].fn = (IF req[id].wg = 0 THEN 1 ELSE 0)
       /\ (req[id].wb # "none" /\ ~req[id].post.panic) =>
             req[id].value = req[id].post.val
       /\ (req[id].wb \in {"addItem", "deleteFromBolt", "deleteReq"}
             /\ reqs[req[id].key] = id) => bolt[req[id].key] = req[id].post.val
  /\ \A t \in Clients :
       (/\ pc[t] = "idle"
        /\ loc[t].role \in {"leader", "follower"}
        /\ ~req[loc[t].r].post.panic)
       => loc[t].ret = Post(loc[t].r)

\* a step in which the put of the write-back of request id fails in the
\* byte store
IsPutFailure(id) ==
  id \in DOMAIN req /\ req[id].wb = "put" /\ req'[id].wb = "putFailed"

\* the leader of request id has returned, and what it returned
LeaderReturned(id, ret) ==
  \E t \in Clients :
    pc[t] = "idle" /\ loc[t].role = "leader" /\ loc[t].r = id /\ loc[t].ret = ret

\* C27: when the byte-store write of the write-back for k fails, the origin's
\* value has been returned to the caller and stays as returned; the index is
\* not updated, puts and put_bytes are not incremented and no key is evicted,
\* neither by that step nor by the rest of the write-back, whose only step
\* left removes the request of k.
C27_WriteFailure ==
  [][\A id \in ReqIds :
       /\ IsPutFailure(id) =>
            /\ req[id].value = req[id].out.val
            /\ UNCHANGED << tq, bolt, stats, reqs, loc >>
            /\ \A t \in Clients :
                 (loc[t].r = id /\ loc[t].role = "leader" /\ pc[t] = "idle")
                    => loc[t].ret = [val |-> req[id].out.val, err |-> NoErr]
       /\ (id \in DOMAIN req /\ req[id].wb = "putFailed" /\ req'[id] # req[id]) =>
            /\ req'[id].wb = "done"
            /\ req'[id].evicted = << >>
            /\ reqs'[req[id].key] = 0
            /\ UNCHANGED << tq, bolt, stats >>]_vars

\* the write of a value has failed, the write-back has ended and the request
\* is removed: the leader holds the origin's value, the index and the byte
\* store do not hold the key, and no put is counted
C27_Witness ==
  \E id \in DOMAIN req :
    /\ req[id].wb = "done"
    /\ reqs[req[id].key] = 0
    /\ LeaderReturned(id, [val |-> req[id].out.val, err |-> NoErr])
    /\ req[id].out.val # Nil
    /\ ~HasKey(tq, req[id].key)
    /\ bolt[req[id].key] = Nil
    /\ stats.puts = 0
    /\ ncalls = 1

(***************************************************************************)
(* Properties of the write-back, checked under Spec.                       *)
(***************************************************************************)
\* the write-back of request id runs addItem
IsAddItem(id) ==
  /\ id \in DOMAIN req
  /\ req[id].wb = "addItem"
  /\ req'[id].wb \in {"deleteFromBolt", "deleteReq"}

\* the sum of the sizes the keys of ev have in the index q
RECURSIVE SizesOf(_, _)
SizesOf(q, ev) ==
  IF ev = << >> THEN 0 ELSE Item(q, Head(ev)).size + SizesOf(q, Tail(ev))

\* C31: the byte count PutAndEvict returns is the sum of the sizes of the
\* keys it returns; addItem, in one step under mu, applies PutAndEvict(key,
\* len(value)) and adds 1 to puts, len(value) to put_bytes, the number of
\* returned keys to evicted_items and the returned byte count to
\* evicted_bytes.
C31_AddItemCounts ==
  [][\A id \in ReqIds : IsAddItem(id) =>
        \A size \in {len(req[id].value)} :
        \A r \in {PutAndEvict(tq, req[id].key, size)} :
           /\ r.bytes = SizesOf(Inserted(tq, req[id].key, size), r.evicted)
           /\ tq' = r.q
           /\ req'[id].evicted = r.evicted
           /\ stats' = [stats EXCEPT !.puts = @ + 1, !.bput = @ + size,
                                     !.evicted = @ + Len(r.evicted),
                                     !.bevicted = @ + r.bytes]]_vars

\* a write-back has evicted a key whose size differs from the size put
C31_Witness ==
  \E id \in DOMAIN req :
     /\ req[id].wb = "deleteFromBolt"
     /\ req[id].evicted # << >>
     /\ stats.puts >= 2
     /\ stats.bevicted > 0
     /\ stats.bevicted # len(req[id].value)

\* client t runs the section of getFromStore that looks the request up
IsRegister(t) == pc[t] = "getFromStore" /\ pc'[t] # "getFromStore"

\* C32: on the success path the request of a key is removed from l.reqs only
\* by the last step of its write-back goroutine, after putIntoBolt, addItem
\* and the deleteFromBolt of the evicted keys; a Get that misses the index
\* while the request is registered waits on it and returns its value and
\* error without a call of the origin, and a Get that misses when no request
\* is registered registers a new one and calls the origin.
C32_RequestEndsAfterWriteBack ==
  [][/\ \A k \in LKeys :
          (reqs[k] # 0 /\ reqs'[k] = 0 /\ req[reqs[k]].err = NoErr) =>
             /\ req[reqs[k]].wb = "deleteReq"
             /\ req[reqs[k]].evicted = << >>
             /\ req'[reqs[k]].wb = "done"
     /\ \A t \in Clients : IsRegister(t) =>
          IF reqs[loc[t].key] # 0
          THEN /\ pc'[t] = "wait"
               /\ loc'[t].r = reqs[loc[t].key]
               /\ UNCHANGED << reqs, req >>
          ELSE /\ pc'[t] = "store"
               /\ loc'[t].role = "leader"
               /\ req' = Append(req, newReq(loc[t].key))
               /\ reqs' = [reqs EXCEPT ![loc[t].key] = Len(req) + 1]
               /\ loc'[t].r = Len(req) + 1
     /\ \A t \in Clients : (pc[t] = "wait" /\ pc'[t] = "idle") =>
          /\ req[loc[t].r].wg = 0
          /\ loc'[t].ret = [val |-> req[loc[t].r].value, err |-> req[loc[t].r].err]
          /\ UNCHANGED << reqs, req >>]_vars

\* the only caller got a value as leader, called Empty while the write-back
\* was on its way, missed the index in its next Get, and that Get has
\* returned the value of the request still registered
C32_Witness ==
  \E t \in Clients :
     /\ OnlyCaller(t)
     /\ pc[t] = "idle"
     /\ loc[t].role = "follower"
     /\ loc[t].afterEmpty
     /\ loc[t].ret.val \in Values
     /\ reqs[loc[t].key] = loc[t].r
     /\ req[loc[t].r].wb # "done"
     /\ Len(req) = 1

\* the keys in the sequence ev
KeySet(ev) == {ev[n] : n \in 1..Len(ev)}

\* the write-back of request id runs deleteFromBolt
IsDeleteFromBolt(id) ==
  /\ id \in DOMAIN req
  /\ req[id].wb = "deleteFromBolt"
  /\ req'[id].wb # "deleteFromBolt"

\* C33: the keys a write-back deletes from the byte store are those its
\* PutAndEvict returned, and the delete comes in a later step than the index
\* change, which leaves each of them outside Hot and Warm and the byte
\* store as it was; the delete removes every evicted key from the byte
\* store and leaves the entries of the other keys in place; the write-back
\* finishes after it.
C33_DeleteAfterIndexChange ==
  [][\A id \in ReqIds :
        /\ IsAddItem(id) =>
             \A r \in {PutAndEvict(tq, req[id].key, len(req[id].value))} :
                /\ tq' = r.q
                /\ bolt' = bolt
                /\ \A e \in KeySet(r.evicted) :
                      Residency(tq', e) \notin {twoQHot, twoQWarm}
                /\ req'[id].evicted = r.evicted
                /\ req'[id].wb = IF r.evicted = << >> THEN "deleteReq"
                                 ELSE "deleteFromBolt"
        /\ IsDeleteFromBolt(id) =>
             /\ req[id].evicted # << >>
             /\ \A k \in LKeys :
                   bolt'[k] = IF k \in KeySet(req[id].evicted) THEN Nil ELSE bolt[k]
             /\ tq' = tq
             /\ req'[id].wb = "deleteReq"
             /\ req'[id].evicted = << >>
        /\ IsWriteBackEnd(id) => req[id].evicted = << >>]_vars

\* a write-back has finished; the key it evicted is Cold and no longer in
\* the byte store, the key it put is Warm or Hot and in the byte store
C33_Witness ==
  \E id \in DOMAIN req : \E e \in LKeys :
     /\ req[id].wb = "done"
     /\ e # req[id].key
     /\ stats.evicted = 1
     /\ Residency(tq, e) = twoQCold
     /\ bolt[e] = Nil
     /\ Residency(tq, req[id].key) \in {twoQHot, twoQWarm}
     /\ bolt[req[id].key] = req[id].value

(***************************************************************************)
(* Properties of the two mutexes, checked under SpecLk.                    *)
(***************************************************************************)
\* client t reads the byte store (getFromBolt), empties it (emptyBolt) or
\* gets the result of its call of the origin
ClientReaches(t) ==
  \/ pc[t] = "getFromBolt" /\ pc'[t] # "getFromBolt"
  \/ pc[t] = "emptyBolt" /\ pc'[t] # "emptyBolt"
  \/ pc[t] = "store" /\ pc'[t] # "store"

\* the write-back goroutine of request id writes to the byte store
\* (putIntoBolt) or deletes from it (deleteFromBolt)
WriteBackReaches(id) ==
  /\ id \in DOMAIN req
  /\ \/ req[id].wb = "put" /\ req'[id].wb # "put"
     \/ req[id].wb = "deleteFromBolt" /\ req'[id].wb # "deleteFromBolt"

\* C34: in Get (and GetWriterTo, which takes the same steps), the
\* write-back and Empty, no goroutine holds l.mu in a step that reads,
\* writes or deletes in the byte store, or while its call of the origin is
\* in flight, and no goroutine holds l.mu and l.muReqs at the same time.
C34_LockDiscipline ==
  [][/\ \A t \in Clients : ClientReaches(t) => mu # ClientOwner(t)
     /\ \A t \in Clients : pc[t] = "store" => mu # ClientOwner(t)
     /\ \A id \in ReqIds : WriteBackReaches(id) => mu # WbOwner(id)
     /\ mu = NoOwner \/ mu # muReqs
     /\ mu' = NoOwner \/ mu' # muReqs']_vars

\* a write-back has deleted the key it evicted from the byte store and is
\* about to delete its request, while one goroutine is in a section under
\* l.mu and another in a section under l.muReqs
C34_Witness ==
  \E id \in DOMAIN req : \E e \in LKeys :
     /\ req[id].wb = "deleteReq"
     /\ stats.evicted > 0
     /\ e # req[id].key
     /\ Residency(tq, e) \notin {twoQHot, twoQWarm}
     /\ bolt[e] = Nil
     /\ mu # NoOwner
     /\ muReqs # NoOwner
     /\ Unlocked(WbOwner(id))

(***************************************************************************)
(* Termination, checked under SpecLive.                                    *)
(***************************************************************************)
\* no call is in progress and no write-back goroutine is running
Quiescent == (\A t \in Clients : pc[t] = "idle") /\ NoWriteBack

\* C35: when every call of the origin returns or panics and every byte-store
\* operation returns, no state is a deadlock: every call that has started
\* returns, every follower that waits on a request is released and every
\* write-back goroutine ends, so that from some point on (the clients make
\* MaxCalls calls at most) no call and no write-back is in progress and no
\* mutex is held; and whenever no call and no write-back is in progress,
\* l.reqs is empty.
C35_Terminates ==
  /\ [](Quiescent => \A k \in LKeys : reqs[k] = 0)
  /\ <>[](Quiescent /\ mu = NoOwner /\ muReqs = NoOwner)

\* after an earlier request has ended with its write-back, the origin has
\* panicked under a leader on which a follower waits
C35_Witness ==
  \E t \in Clients, u \in Clients :
     /\ pc[t] = "leaderReturn"
     /\ req[loc[t].r].out.panic
     /\ pc[u] = "wait"
     /\ loc[u].r = loc[t].r
     /\ \E id \in DOMAIN req : req[id].wb = "done"

(***************************************************************************)
(* More properties of the cache coordinator, checked under Spec.           *)
(***************************************************************************)
\* the requests for key k whose write-back goroutine is running
WritingBack(k) ==
  {id \in DOMAIN req : req[id].key = k /\ req[id].wb \notin {"none", "done"}}

\* C36: for every key at most one write-back goroutine is running at any
\* time; while it runs its request is the one registered for the key, so
\* that no call of the origin for the key is in flight and none can start
\* before the write-back has deleted the request.
C36_OneWriteBackPerKey ==
  \A k \in LKeys :
     /\ Cardinality(WritingBack(k)) <= 1
     /\ \A id \in WritingBack(k) : reqs[k] = id /\ InStore(k) = {}

\* a second write-back for a key is running, the first has ended
C36_Witness ==
  \E k \in LKeys, id \in DOMAIN req, old \in DOMAIN req :
     /\ old < id
     /\ req[old].key = k
     /\ req[old].wb = "done"
     /\ WritingBack(k) = {id}
     /\ req[id].wb = "addItem"
     /\ bolt[k] = req[id].value

\* C37: whenever no Get, write-back or Empty is in progress, every key that
\* has a value in the byte store is Hot or Warm in the index.
C37_ByteStoreInHotWarm ==
  AtRest =>
    \A k \in LKeys :
      bolt[k] # Nil => Residency(tq, k) \in {twoQHot, twoQWarm}

\* at rest after a write-back has evicted a key: the evicted key is Cold and
\* has no value in the byte store, the key put is Hot or Warm and has one
C37_Witness ==
  /\ AtRest
  /\ stats.evicted >= 1
  /\ \E k \in LKeys : bolt[k] # Nil /\ Residency(tq, k) \in {twoQHot, twoQWarm}
  /\ \E e \in LKeys : bolt[e] = Nil /\ Residency(tq, e) = twoQCold

(***************************************************************************)
(* Properties of the statistics over a byte store whose reads may fail,    *)
(* checked under SpecRS.                                                   *)
(***************************************************************************)
\* C38: under every interleaving of Get, write-back, Stats and ResetStats
\* the counters hits, misses, get_bytes, puts, put_bytes, evicted_items and
\* evicted_bytes are never negative.
C38_CountersNonNegative ==
  /\ stats.hits >= 0
  /\ stats.misses >= 0
  /\ stats.bget >= 0
  /\ stats.puts >= 0
  /\ stats.bput >= 0
  /\ stats.evicted >= 0
  /\ stats.bevicted >= 0

(***************************************************************************)
(* Sizes in the index, checked under Spec.                                 *)
(***************************************************************************)
\* C39: whenever no operation is in progress, for every key that is Hot or
\* Warm in the index and has a value in the byte store, the size the index
\* records for the key is the length of that value.
C39_IndexSizeIsValueLength ==
  AtRest =>
    \A k \in LKeys :
      (Residency(tq, k) \in {twoQHot, twoQWarm} /\ bolt[k] # Nil) =>
         Item(tq, k).size = len(bolt[k])

\* at rest, a key is Hot or Warm with the value of its second request, which
\* is longer or shorter than the value its first request had stored
C39_Witness ==
  /\ AtRest
  /\ \E k \in LKeys, id \in DOMAIN req, old \in DOMAIN req :
        /\ old < id
        /\ req[old].key = k /\ req[id].key = k
        /\ req[old].wb = "done" /\ req[id].wb = "done"
        /\ len(req[old].value) # len(req[id].value)
        /\ bolt[k] = req[id].value
        /\ Residency(tq, k) \in {twoQHot, twoQWarm}

(***************************************************************************)
(* The insertion of a small new entry, checked under SpecGP.               *)
(***************************************************************************)
\* the keys in the sequence ev
Among(ev) == {ev[j] : j \in 1..Len(ev)}

\* the step is a PutAndEvict of a key that was not in the index, with a size
\* at or under Warm's prune capacity
IsSmallNewPut ==
  /\ IsPut
  /\ call'.was = -1
  /\ call'.size <= listPruneCap[twoQWarm]

\* C40: PutAndEvict(k, s) of a key k that is not in the index, with
\* 0 <= s <= Warm's prune capacity, does not return k among its evicted keys
\* and leaves k in Warm.
C40_SmallNewEntrySurvives ==
  [][IsSmallNewPut =>
       /\ call'.key \notin Among(call'.evicted)
       /\ Residency(tq', call'.key) = twoQWarm]_vars

====
